---- MODULE Spec2Model ----
(***************************************************************************)
(* BeatForge (faustostangler/BFX): the runner of src/app.py and            *)
(* src/main.py, the playlist manager's selection input and the SQLite      *)
(* store track_info written by beatforge/playlist.py, the runners and      *)
(* beatforge/persistence.py.                                               *)
(***************************************************************************)
EXTENDS Integers, Sequences, FiniteSets, TLC

\* ------------------------------------------------------------------ bounds
\* Length of playlist_urls handed to one call of run().
MaxPlaylists == 2
\* Number of calls of run() in one behaviour.
MaxRuns == 2
\* Longest playlist handed to the selection specification (SpecSelect).
MaxSelLen == 8
\* The largest raw tempo an estimator returns, in BPM.
MaxRawBpm == 440

\* Lines of the playlist file.
MaxLines == 3

\* Turns of the loop of _generate_ranges the model follows.
MaxBuckets == 12

\* Tracks handed to the Spotify enrichment.
MaxEnrich == 3

\* Calls of download_wav one caller makes in a row.
MaxFetchCalls == 2

\* Calls of convert made in a row for one track.
MaxConvertCalls == 2

\* Videos of the playlist fetch_entries goes through.
MaxEntries == 2

\* The video urls the media source can enumerate.
Urls == {"u1", "u2"}

UrlNo(u) == IF u = "u1" THEN 1 ELSE 2

\* A metadata snapshot of a video: the counts change between two extractions.
Snapshots == {1, 2}

\* Python None / SQL NULL, and a present value v.
NULL == <<>>
Some(v) == <<v>>

\* ------------------------------------------------------------ TrackDTO
\* TrackDTO(url=...) : every field but url defaults to None.  `title` stands
\* for the display columns written together with it (title, artist, album,
\* safe_title, like_count, comment_count, engagement_rate, age_weight).
TrackDTO(u) ==
    [url |-> u,
     wav_path |-> NULL, bpm_librosa |-> NULL, target_bpm |-> NULL,
     mp3_path |-> NULL, bpm_essentia |-> NULL,
     view_count |-> NULL, engagement_score_alt |-> NULL,
     engagement_score_log |-> NULL, title |-> NULL]

\* The media source's statistics of video u at snapshot s.
MediaViews(u, s) == (UrlNo(u) + s) % 3
MediaAlt(u, s)   == (2 * UrlNo(u) + s) % 3
MediaLog(u, s)   == (UrlNo(u) + 2 * s) % 3

\* The TrackDTO fetch_entries builds for one extracted video.
FetchedTrack(u, s) ==
    [TrackDTO(u) EXCEPT
        !.view_count = Some(MediaViews(u, s)),
        !.engagement_score_alt = Some(MediaAlt(u, s)),
        !.engagement_score_log = Some(MediaLog(u, s)),
        !.title = Some(s)]

\* ------------------------------------------------------- the SQLite store
\* The table track_info of <FILENAME>.db.  schema is "absent" while the file
\* does not exist, else the CREATE TABLE that made the table:
\*   "slim": the 12 columns of save_tracks_db and of app.py's save_tracks,
\*   "full": the 40 columns of persistence.ensure_schema,
\*   "feat": the 13 columns (with features_json) of main.py's save_tracks.
\* rows maps each stored url (the PRIMARY KEY) to its row; a column the
\* table does not have reads as NULL.
Schemas == {"absent", "slim", "full", "feat"}

\* Columns a schema has beyond the 12 that all three share.
HasPipelineColumns(sch) == sch = "full"
HasFeaturesJson(sch) == sch = "feat"

\* INSERT OR REPLACE INTO track_info (url, view_count, ..., safe_title)
\* VALUES (?, ...): the old row of that url is deleted and the new one holds
\* the twelve named values; every other column takes its default, NULL.
NamedInsertRow(t) ==
    [view_count |-> t.view_count,
     engagement_score_alt |-> t.engagement_score_alt,
     engagement_score_log |-> t.engagement_score_log,
     title |-> t.title,
     wav_path |-> NULL, bpm_librosa |-> NULL, target_bpm |-> NULL,
     mp3_path |-> NULL, bpm_essentia |-> NULL]

\* INSERT OR REPLACE INTO track_info VALUES (:url, :wav_path, ...): all forty
\* columns come from the TrackDTO's __dict__.
FullInsertRow(t) ==
    [view_count |-> t.view_count,
     engagement_score_alt |-> t.engagement_score_alt,
     engagement_score_log |-> t.engagement_score_log,
     title |-> t.title,
     wav_path |-> t.wav_path, bpm_librosa |-> t.bpm_librosa,
     target_bpm |-> t.target_bpm, mp3_path |-> t.mp3_path,
     bpm_essentia |-> t.bpm_essentia]

\* One INSERT OR REPLACE keyed by url.
Replace(rs, u, row) ==
    [x \in (DOMAIN rs) \cup {u} |-> IF x = u THEN row ELSE rs[x]]

\* for t in tracks: cur.execute(INSERT OR REPLACE ... twelve columns ...)
RECURSIVE InsertNamed(_, _)
InsertNamed(rs, tracks) ==
    IF tracks = <<>> THEN rs
    ELSE InsertNamed(Replace(rs, Head(tracks).url, NamedInsertRow(Head(tracks))),
                     Tail(tracks))

\* PlaylistManager.save_tracks_db: CREATE TABLE IF NOT EXISTS (12 columns),
\* then the twelve-column upsert of every track.  The twelve columns exist in
\* every schema, so the statement never fails.
SaveTracksDb(db, tracks) ==
    [schema |-> IF db.schema = "absent" THEN "slim" ELSE db.schema,
     rows |-> InsertNamed(db.rows, tracks)]

\* persistence.ensure_schema / init_db: CREATE TABLE IF NOT EXISTS (40 columns).
EnsureSchema(db) ==
    [schema |-> IF db.schema = "absent" THEN "full" ELSE db.schema,
     rows |-> db.rows]

\* persistence.save_track_list: forty positional values per row.  sqlite3
\* raises OperationalError when the table is missing or has another number
\* of columns; the `with` block then rolls back and nothing is written.
SaveTrackListFails(db) == db.schema # "full"

RECURSIVE InsertFull(_, _)
InsertFull(rs, tracks) ==
    IF tracks = <<>> THEN rs
    ELSE InsertFull(Replace(rs, Head(tracks).url, FullInsertRow(Head(tracks))),
                    Tail(tracks))

SaveTrackList(db, tracks) ==
    IF SaveTrackListFails(db) THEN db
    ELSE [schema |-> db.schema, rows |-> InsertFull(db.rows, tracks)]

\* Faulty variant of ProcessedRow: WHERE ... AND ... instead of OR.
ProcessedRowBoth(row) == row.bpm_librosa # NULL /\ row.bpm_essentia # NULL

\* persistence.get_processed_urls:
\*   SELECT url FROM track_info
\*   WHERE bpm_librosa IS NOT NULL OR bpm_essentia IS NOT NULL
ProcessedRow(row) == row.bpm_librosa # NULL \/ row.bpm_essentia # NULL

\* A row with both tempo analyses recorded.
FullyProcessedRow(row) == row.bpm_librosa # NULL /\ row.bpm_essentia # NULL

\* The query raises OperationalError unless the table has the two columns.
GetProcessedUrlsFails(db) == ~HasPipelineColumns(db.schema)

GetProcessedUrls(db) == {u \in DOMAIN db.rows : ProcessedRow(db.rows[u])}

\* ------------------------------------------------------------- selection
\* limit=5 in run()'s call of _select_curated_tracks.
CuratedLimit == 5

Min(a, b) == IF a < b THEN a ELSE b

\* seq[:n]
Take(seq, n) == SubSeq(seq, 1, Min(n, Len(seq)))

\* seq[1:]
Rest(seq) == IF seq = <<>> THEN <<>> ELSE Tail(seq)

\* The attribute a ranking reads.
FieldOf(t, k) ==
    CASE k = "alt" -> t.engagement_score_alt
      [] k = "log" -> t.engagement_score_log
      [] k = "viral" -> t.view_count

\* [t for t in tracks if t.<field> is not None]
RECURSIVE FilterNotNone(_, _)
FilterNotNone(tracks, k) ==
    IF tracks = <<>> THEN <<>>
    ELSE IF FieldOf(Head(tracks), k) # NULL
         THEN <<Head(tracks)>> \o FilterNotNone(Tail(tracks), k)
         ELSE FilterNotNone(Tail(tracks), k)

\* Where x goes in a list already sorted descending: behind every element
\* whose key is >= its own (sorted() is stable, also with reverse=True).
RECURSIVE InsertDesc(_, _, _)
InsertDesc(sorted, x, k) ==
    IF sorted = <<>> THEN <<x>>
    ELSE IF FieldOf(Head(sorted), k)[1] >= FieldOf(x, k)[1]
         THEN <<Head(sorted)>> \o InsertDesc(Tail(sorted), x, k)
         ELSE <<x>> \o sorted

\* sorted(tracks, key=lambda t: t.<field>, reverse=True)
RECURSIVE SortedDescFrom(_, _, _)
SortedDescFrom(acc, tracks, k) ==
    IF tracks = <<>> THEN acc
    ELSE SortedDescFrom(InsertDesc(acc, Head(tracks), k), Tail(tracks), k)

SortedDesc(tracks, k) == SortedDescFrom(<<>>, tracks, k)

\* One of the three lists of _select_curated_tracks.
TopBy(tracks, k, limit) == Take(SortedDesc(FilterNotNone(tracks, k), k), limit)

\* Faulty variant of SelectCuratedTracks: the ranking by view_count is not taken.
SelectCuratedNoViral(tracks, limit) ==
    <<TopBy(tracks, "alt", limit), TopBy(tracks, "log", limit), <<>>>>

\* BeatForgeRunner._select_curated_tracks: (top_alt, top_log, top_viral).
SelectCuratedTracks(tracks, limit) ==
    <<TopBy(tracks, "alt", limit), TopBy(tracks, "log", limit),
      TopBy(tracks, "viral", limit)>>

\* seen = set(); for t in ...: if t.url not in seen: seen.add; append
RECURSIVE DedupByUrl(_, _, _)
DedupByUrl(acc, seen, tracks) ==
    IF tracks = <<>> THEN acc
    ELSE IF Head(tracks).url \in seen
         THEN DedupByUrl(acc, seen, Tail(tracks))
         ELSE DedupByUrl(Append(acc, Head(tracks)),
                         seen \cup {Head(tracks).url}, Tail(tracks))

\* MAX_TRACKS_PER_PLAYLIST (beatforge/config.py), run()'s default for
\* max_tracks_per_playlist and the value both scripts pass.
MaxTracksPerPlaylist == 50

\* get_links: return all_tracks[:max_tracks_per_playlist]
GetLinksReturn(all_tracks, max_tracks) == Take(all_tracks, max_tracks)

\* first = [tracks[0]] raises IndexError on an empty list (curated mode only).
SelectRaises(process_all_entries, tracks) ==
    ~process_all_entries /\ tracks = <<>>

\* Faulty variant of First: the anchor is left out of the concatenation.
FirstLeftOut(tracks) == <<>>

\* The anchor of the curated branch.
First(tracks) == <<tracks[1]>>

\* Faulty variant of SelectTracks: the exhaustive branch is capped like the curated.
SelectTracksCapped(process_all_entries, tracks) ==
    IF process_all_entries THEN Take(tracks, CuratedLimit)
    ELSE LET tops == SelectCuratedTracks(Rest(tracks), CuratedLimit)
         IN  DedupByUrl(<<>>, {}, First(tracks) \o tops[1] \o tops[2] \o tops[3])

\* selected_tracks of one iteration of run()'s playlist loop.
SelectTracks(process_all_entries, tracks) ==
    IF process_all_entries THEN tracks
    ELSE LET tops == SelectCuratedTracks(Rest(tracks), CuratedLimit)
         IN  DedupByUrl(<<>>, {}, First(tracks) \o tops[1] \o tops[2] \o tops[3])

\* Faulty variant of DictSet: a url already in the dict keeps its first value
\* (dict.setdefault).
DictSetKeepFirst(d, t) ==
    IF \E j \in 1..Len(d) : d[j].url = t.url THEN d ELSE Append(d, t)

\* all_tracks_by_url[t.url] = t on an insertion-ordered dict, kept as the
\* sequence of its values: a known key keeps its place and takes the new
\* value, a new key goes to the end.
DictSet(d, t) ==
    IF \E j \in 1..Len(d) : d[j].url = t.url
    THEN [j \in 1..Len(d) |-> IF d[j].url = t.url THEN t ELSE d[j]]
    ELSE Append(d, t)

\* Faulty variant of KeepCandidate: the store is not consulted.
KeepEveryCandidate(t, existing) == TRUE

\* if t.url not in existing_tracks_by_url
KeepCandidate(t, existing) == t.url \notin existing

\* for t in selected_tracks: if ...: all_tracks_by_url[t.url] = t
RECURSIVE MergeSelected(_, _, _)
MergeSelected(d, selected, existing) ==
    IF selected = <<>> THEN d
    ELSE MergeSelected(IF KeepCandidate(Head(selected), existing)
                       THEN DictSet(d, Head(selected)) ELSE d,
                       Tail(selected), existing)

\* ------------------------------------------------- the per-track pipeline
\* The methods class Downloader defines (beatforge/downloader.py).
DownloaderMethods ==
    {"download_wav", "_get_title", "_safe_filename", "_cleanup_conflicts",
     "_wait_for_file"}

\* TrackDTO.bpm is a @property with no setter: assigning it raises
\* AttributeError.
ReadOnlyProperties == {"bpm"}

\* What the collaborators do for one track: TRUE where the call returns,
\* FALSE where it raises.
Envs ==
    [fetch : BOOLEAN, features : BOOLEAN, analyze : BOOLEAN,
     bucket : BOOLEAN, convert : BOOLEAN]

\* One stage call in the order the code makes it.
Call(t, stage, ok) == [url |-> t.url, stage |-> stage, ok |-> ok]

\* wav_path = self.downloader.download_to_wav(track.url, track.safe_title)
\* track.wav_path = wav_path
StageFetch(st, env) ==
    IF "download_to_wav" \notin DownloaderMethods
    THEN [st EXCEPT !.calls = Append(@, Call(st.track, "Fetch", FALSE)),
                    !.exc = "AttributeError"]
    ELSE IF ~env.fetch
    THEN [st EXCEPT !.calls = Append(@, Call(st.track, "Fetch", FALSE)),
                    !.exc = "TimeoutError"]
    ELSE [st EXCEPT !.calls = Append(@, Call(st.track, "Fetch", TRUE)),
                    !.track.wav_path = Some("wav")]

\* main.py only: track.features = self.feature_extractor.extract_all(wav_path)
\* and the dump of the features beside the waveform.
StageFeatures(st, env) ==
    IF ~env.features
    THEN [st EXCEPT !.calls = Append(@, Call(st.track, "Features", FALSE)),
                    !.exc = "Exception"]
    ELSE [st EXCEPT !.calls = Append(@, Call(st.track, "Features", TRUE))]

\* raw_bpm = self.analyzer.extract(wav_path); track.bpm = raw_bpm
StageAnalyze(st, env) ==
    IF ~env.analyze
    THEN [st EXCEPT !.calls = Append(@, Call(st.track, "Analyze", FALSE)),
                    !.exc = "Exception"]
    ELSE IF "bpm" \in ReadOnlyProperties
    THEN [st EXCEPT !.calls = Append(@, Call(st.track, "Analyze", FALSE)),
                    !.exc = "AttributeError"]
    ELSE [st EXCEPT !.calls = Append(@, Call(st.track, "Analyze", TRUE)),
                    !.track.bpm_essentia = Some(120)]

\* target_bpm = self.analyzer.choose_target(raw_bpm); track.target_bpm = ...
StageResolve(st, env) ==
    IF ~env.bucket
    THEN [st EXCEPT !.calls = Append(@, Call(st.track, "Resolve", FALSE)),
                    !.exc = "ValueError"]
    ELSE [st EXCEPT !.calls = Append(@, Call(st.track, "Resolve", TRUE)),
                    !.track.target_bpm = Some(120)]

\* self.converter.convert(track)
StageConvert(st, env) ==
    IF ~env.convert
    THEN [st EXCEPT !.calls = Append(@, Call(st.track, "Convert", FALSE)),
                    !.exc = "CalledProcessError"]
    ELSE [st EXCEPT !.calls = Append(@, Call(st.track, "Convert", TRUE)),
                    !.track.mp3_path = Some("mp3")]

\* Faulty variant of Then: the next statement runs although the one before raised.
ThenRegardless(st, next) == next

\* A statement of the try block runs only while nothing was raised before it.
Then(st, next) == IF st.exc = "none" THEN next ELSE st

\* The try block of run()'s second loop for one track: the stage calls in
\* program order, up to the first that raises.
TryBody(variant, track, env) ==
    LET s0 == [track |-> track, calls |-> <<>>, exc |-> "none"]
        s1 == StageFetch(s0, env)
        s2 == IF variant = "main" THEN Then(s1, StageFeatures(s1, env)) ELSE s1
        s3 == Then(s2, StageAnalyze(s2, env))
        s4 == Then(s3, StageResolve(s3, env))
        s5 == Then(s4, StageConvert(s4, env))
    IN  s5

\* except Exception as e: every exception the stages raise derives from
\* Exception, so the handler takes it and the loop goes on.
ExceptionSubclasses ==
    {"AttributeError", "TimeoutError", "ValueError", "CalledProcessError",
     "Exception"}

\* Faulty variant of Caught: except ValueError instead of except Exception.
CaughtValueErrorOnly(exc) == exc = "ValueError"

Caught(exc) == exc \in ExceptionSubclasses

\* results.append(track) is the statement after convert in the try block.
Appended(st) == st.exc = "none"

\* ------------------------------------------------------ loading and saving
\* BeatForgeRunner.load_tracks.  app.py selects the twelve shared columns and
\* never fails.  main.py also selects features_json (OperationalError on a
\* table without it) and builds TrackDTO(..., features=feats), a keyword
\* TrackDTO does not take (TypeError on the first row).
LoadTracksRaises(variant, db) ==
    /\ variant = "main"
    /\ \/ db.schema \in {"slim", "full"}
       \/ db.schema = "feat" /\ DOMAIN db.rows # {}

\* The keys of the dict load_tracks returns; run() reads only the keys.
LoadTracks(db) == IF db.schema = "absent" THEN {} ELSE DOMAIN db.rows

\* main.py's save_tracks reads t.features of every track while writing the
\* CSV, before it touches SQLite; TrackDTO has no such attribute.
SaveTracksRaises(variant, tracks) == variant = "main" /\ tracks # <<>>

\* BeatForgeRunner.save_tracks, the SQLite part.
\*   app.py : CREATE TABLE IF NOT EXISTS (12 columns), twelve-column upserts.
\*   main.py: CREATE TABLE IF NOT EXISTS (13 columns); when the table found
\*            has no features_json: DROP TABLE and CREATE it anew; upserts.
SaveTracks(variant, db, tracks) ==
    IF variant = "app"
    THEN [schema |-> IF db.schema = "absent" THEN "slim" ELSE db.schema,
          rows |-> InsertNamed(db.rows, tracks)]
    ELSE IF db.schema = "absent" \/ HasFeaturesJson(db.schema)
         THEN [schema |-> "feat", rows |-> InsertNamed(db.rows, tracks)]
         ELSE [schema |-> "feat", rows |-> InsertNamed(<<>>, tracks)]

\* ------------------------------------------------------------ enumeration
\* Sequences of distinct urls: fetch_entries drops repeated urls
\* (OrderedDict.fromkeys) and skips a video whose extraction raises.
RECURSIVE UrlSeqs(_)
UrlSeqs(n) ==
    IF n = 0 THEN {<<>>}
    ELSE UrlSeqs(n - 1) \cup
         {Append(q, u) : q \in {x \in UrlSeqs(n - 1) : Len(x) = n - 1},
                         u \in Urls}

DistinctUrlSeqs ==
    {q \in UrlSeqs(Cardinality(Urls)) : \A a, b \in 1..Len(q) : a # b => q[a] # q[b]}

\* What get_links can return for one playlist url: the videos of the
\* playlist, all extracted at the same snapshot.
Enumerations ==
    {[j \in 1..Len(q) |-> FetchedTrack(q[j], s)] :
        q \in DistinctUrlSeqs, s \in Snapshots}

\* The tempo and path fields a TrackDTO handed to save_track_list may carry.
PipelineShapes ==
    {[wav_path |-> NULL, bpm_librosa |-> NULL, bpm_essentia |-> NULL,
      target_bpm |-> NULL, mp3_path |-> NULL],
     [wav_path |-> Some("wav"), bpm_librosa |-> Some(118), bpm_essentia |-> NULL,
      target_bpm |-> NULL, mp3_path |-> NULL],
     [wav_path |-> Some("wav"), bpm_librosa |-> NULL, bpm_essentia |-> Some(120),
      target_bpm |-> NULL, mp3_path |-> NULL],
     [wav_path |-> Some("wav"), bpm_librosa |-> Some(118), bpm_essentia |-> Some(120),
      target_bpm |-> Some(122), mp3_path |-> Some("mp3")]}

ShapedTrack(u, s, sh) ==
    [FetchedTrack(u, s) EXCEPT
        !.wav_path = sh.wav_path, !.bpm_librosa = sh.bpm_librosa,
        !.bpm_essentia = sh.bpm_essentia, !.target_bpm = sh.target_bpm,
        !.mp3_path = sh.mp3_path]

\* ------------------------------------------------------ the tempo resolver
\* Tempos are Python floats.  Every value the resolver computes from the
\* configurations and raw tempos below is a multiple of a quarter BPM, which
\* a float holds exactly, so a tempo is kept as its number of quarter BPMs.
Bpm(n) == 4 * n

\* Faulty variant of IntOf: round(x), to the nearest integer.
RoundOf(q) == IF q >= 0 THEN (q + 2) \div 4 ELSE -((2 - q) \div 4)

\* int(x) for a float x of q quarter BPMs: truncation towards zero.
IntOf(q) == IF q >= 0 THEN q \div 4 ELSE -((-q) \div 4)

\* BPM_EXTREMES_MULTIPLIER
ExtremesMultiplier == 2

\* BPM_TARGET_OFFSET = BPM_INTERVAL_SIZE * 3/4
ThreeQuarters(interval) == (interval * 3) \div 4

\* config.py as it stands: 105, 210, 10, 7.5, 2.
DefaultConfig ==
    [min_bpm |-> Bpm(105), max_bpm |-> Bpm(210), interval |-> Bpm(10),
     offset |-> ThreeQuarters(Bpm(10)), extreme_mult |-> ExtremesMultiplier]

\* The values config.py can be edited to (interval > 0: with an interval of
\* zero or less the loop of _generate_ranges does not end).  Beside the
\* default: a range the interval divides, the range of the docstring of
\* _generate_ranges, an offset of 3.75, and two ranges with start >= end.
Configs ==
    {DefaultConfig,
     [DefaultConfig EXCEPT !.min_bpm = Bpm(100), !.max_bpm = Bpm(200),
                           !.interval = Bpm(20), !.offset = Bpm(15)],
     [DefaultConfig EXCEPT !.min_bpm = Bpm(105), !.max_bpm = Bpm(125),
                           !.interval = Bpm(20), !.offset = Bpm(15)],
     [DefaultConfig EXCEPT !.min_bpm = Bpm(100), !.max_bpm = Bpm(120),
                           !.interval = Bpm(5), !.offset = ThreeQuarters(Bpm(5))],
     [DefaultConfig EXCEPT !.min_bpm = Bpm(210), !.max_bpm = Bpm(105)],
     [DefaultConfig EXCEPT !.min_bpm = Bpm(120), !.max_bpm = Bpm(120)]}

\* What an estimator can return: every half BPM from 0 to MaxRawBpm.
RawTempos == {2 * h : h \in 0..(2 * MaxRawBpm)}

\* Faulty variant of RangesFrom: a range is generated only while it ends
\* within max_bpm (while start + interval <= max).
RECURSIVE RangesWithin(_, _)
RangesWithin(cfg, start) ==
    IF start + cfg.interval <= cfg.max_bpm
    THEN <<[low |-> start, high |-> start + cfg.interval,
            target |-> IntOf(start + cfg.offset)]>>
         \o RangesWithin(cfg, start + cfg.interval)
    ELSE <<>>

\* BPMAnalyzer._generate_ranges: the while loop from start on.
RECURSIVE RangesFrom(_, _)
RangesFrom(cfg, start) ==
    IF start < cfg.max_bpm
    THEN <<[low |-> start, high |-> start + cfg.interval,
            target |-> IntOf(start + cfg.offset)]>>
         \o RangesFrom(cfg, start + cfg.interval)
    ELSE <<>>

GenerateRanges(cfg) == RangesFrom(cfg, cfg.min_bpm)

\* Faulty variant of NormalizeBpm: the correction is applied until the tempo
\* is no longer beyond the bound it was beyond (at most twice here).
NormalizeRepeated(cfg, bpm) ==
    IF bpm < cfg.min_bpm
    THEN IF bpm * cfg.extreme_mult < cfg.min_bpm
         THEN bpm * cfg.extreme_mult * cfg.extreme_mult
         ELSE bpm * cfg.extreme_mult
    ELSE IF bpm > cfg.max_bpm
    THEN IF bpm \div cfg.extreme_mult > cfg.max_bpm
         THEN (bpm \div cfg.extreme_mult) \div cfg.extreme_mult
         ELSE bpm \div cfg.extreme_mult
    ELSE bpm

\* Faulty variant of NormalizeBpm: the bounds themselves are corrected
\* (<= and >= for < and >).
NormalizeInclusive(cfg, bpm) ==
    IF bpm <= cfg.min_bpm THEN bpm * cfg.extreme_mult
    ELSE IF bpm >= cfg.max_bpm THEN bpm \div cfg.extreme_mult
    ELSE bpm

\* BPMAnalyzer._normalize_bpm.  The quotient is exact: the raw tempos are
\* whole half BPMs and the multiplier is 2.
NormalizeBpm(cfg, bpm) ==
    IF bpm < cfg.min_bpm THEN bpm * cfg.extreme_mult
    ELSE IF bpm > cfg.max_bpm THEN bpm \div cfg.extreme_mult
    ELSE bpm

\* if low <= bpm < high
InBucket(r, bpm) == r.low <= bpm /\ bpm < r.high

\* Faulty variant of ChooseTarget: low < bpm <= high.
ChooseTargetUpperInclusive(ranges, bpm) ==
    IF \E k \in 1..Len(ranges) : ranges[k].low < bpm /\ bpm <= ranges[k].high
    THEN LET k == CHOOSE n \in 1..Len(ranges) :
                      /\ ranges[n].low < bpm /\ bpm <= ranges[n].high
                      /\ \A j \in 1..(n - 1) :
                            ~(ranges[j].low < bpm /\ bpm <= ranges[j].high)
         IN  [raised |-> FALSE, target |-> ranges[k].target]
    ELSE [raised |-> TRUE, target |-> 0]

\* BPMAnalyzer.choose_target: the target of the first range that holds bpm,
\* or ValueError.
ChooseTarget(ranges, bpm) ==
    IF \E k \in 1..Len(ranges) : InBucket(ranges[k], bpm)
    THEN LET k == CHOOSE n \in 1..Len(ranges) :
                      /\ InBucket(ranges[n], bpm)
                      /\ \A j \in 1..(n - 1) : ~InBucket(ranges[j], bpm)
         IN  [raised |-> FALSE, target |-> ranges[k].target]
    ELSE [raised |-> TRUE, target |-> 0]

\* Faulty variant of BpmProperty: Librosa's estimate comes first.
BpmLibrosaFirst(t) ==
    IF t.bpm_librosa # NULL THEN t.bpm_librosa ELSE t.bpm_essentia

\* TrackDTO.bpm: Essentia's estimate if set, otherwise Librosa's.
BpmProperty(t) ==
    IF t.bpm_essentia # NULL THEN t.bpm_essentia ELSE t.bpm_librosa

\* The values an estimator's field of a TrackDTO can hold.
Estimates == {NULL} \cup {Some(Bpm(b)) : b \in {60, 90, 105, 118, 120, 128, 140, 174, 210}}

\* ---------------------------------------------------- BPMAnalyzer.extract
\* The estimators extract() calls, in the order of its code: Essentia in the
\* try block, Librosa in its except block.
OracleOrder == <<"essentia", "librosa">>

\* The tempos an estimator can give for a waveform.
OracleTempos == {Bpm(b) : b \in {0, 52, 60, 100, 105, 120, 210, 230, 420}}

\* What an estimator does with a waveform: it raises (NULL) or gives a tempo.
OracleOutcomes == {NULL} \cup {Some(t) : t \in OracleTempos}

\* A waveform, as far as extract() can tell: what each estimator does with it.
Waveforms == [essentia : OracleOutcomes, librosa : OracleOutcomes]

\* Faulty variant of ExtractTempo: both estimators run, and when both give a
\* tempo the result is their mean.
ExtractTempoBlended(cfg, wav) ==
    IF wav.essentia # NULL /\ wav.librosa # NULL
    THEN [calls |-> OracleOrder, raised |-> FALSE,
          bpm |-> NormalizeBpm(cfg, (wav.essentia[1] + wav.librosa[1]) \div 2)]
    ELSE IF wav.essentia # NULL
    THEN [calls |-> OracleOrder, raised |-> FALSE,
          bpm |-> NormalizeBpm(cfg, wav.essentia[1])]
    ELSE IF wav.librosa # NULL
    THEN [calls |-> OracleOrder, raised |-> FALSE,
          bpm |-> NormalizeBpm(cfg, wav.librosa[1])]
    ELSE [calls |-> OracleOrder, raised |-> TRUE, bpm |-> 0]

\* extract(wav_path): the try block runs Essentia; except Exception runs
\* Librosa, whose exception leaves extract(); the tempo that was obtained is
\* normalized.  calls lists the estimators that ran.
ExtractTempo(cfg, wav) ==
    IF wav.essentia # NULL
    THEN [calls |-> <<"essentia">>, raised |-> FALSE,
          bpm |-> NormalizeBpm(cfg, wav.essentia[1])]
    ELSE IF wav.librosa # NULL
    THEN [calls |-> <<"essentia", "librosa">>, raised |-> FALSE,
          bpm |-> NormalizeBpm(cfg, wav.librosa[1])]
    ELSE [calls |-> <<"essentia", "librosa">>, raised |-> TRUE, bpm |-> 0]

\* ------------------------------------------------ Downloader.download_wav
\* Characters, as far as the code tells them apart.  A text is a sequence of
\* characters.  "e'" stands for an accented letter, EnDash for U+2013.
AsciiAlnum == {"a", "B", "7"}

\* Characters for which str.isalnum() holds.
Alnum == AsciiAlnum \cup {"e'"}

EnDash == "en dash"

Chars == Alnum \cup {" ", "-", "_", "/", EnDash}

\* name.replace(old, new) for single characters
ReplaceChar(name, old, new) ==
    [k \in 1..Len(name) |-> IF name[k] = old THEN new ELSE name[k]]

\* "".join(c for c in name if keep(c)), keep given as a set of characters
KeepChars(name, keep) == SelectSeq(name, LAMBDA c : c \in keep)

\* _safe_filename(name): spaces become underscores, what is neither
\* alphanumeric nor - nor _ goes, the first 128 characters stay.
SafeFilename(name) ==
    Take(KeepChars(ReplaceChar(name, " ", "_"), Alnum \cup {"-", "_"}), 128)

\* The titles yt-dlp reports for the videos.
VideoTitles == {<<"a", " ", "B">>, <<"a", "_", "B">>, <<"7", "e'">>}

\* os.path.join(self.output_dir, f"{safe_title}.{ext}")
OutputFile(base, ext) == <<base, ext>>

\* wav_path of download_wav
WavPath(title) == OutputFile(SafeFilename(title), "wav")

\* The extensions _cleanup_conflicts removes.
ConflictExts == {"webm", "m4a", "mp3", "mp4"}

\* _cleanup_conflicts(base): the files left once the conflicting ones are removed
CleanupConflicts(files, base) ==
    files \ {OutputFile(base, ext) : ext \in ConflictExts}

\* timeout of _wait_for_file, in seconds
TimeoutSeconds == 60

\* time.sleep(0.5): polls of _wait_for_file per second
PollsPerSecond == 2

\* Faulty variant of TimedOut: the wait gives up as soon as the timeout is reached.
TimedOutAtTimeout(polls) == polls >= TimeoutSeconds * PollsPerSecond

\* time.time() - start > timeout, after polls sleeps of half a second
TimedOut(polls) == polls > TimeoutSeconds * PollsPerSecond

\* What a call of download_wav leaves behind.
Returned(path) == [raised |-> "none", path |-> path]

Raised(exc) == [raised |-> exc, path |-> <<>>]

\* ------------------------------------------------------- Converter.convert
\* out_mp3 = self.base_dir / str(track.target_bpm) /
\*           f"{track.safe_title}_{track.target_bpm}bpm.mp3"
OutMp3(track) == <<track.target_bpm, track.safe_title, "mp3">>

\* Faulty variant of AlreadyConverted: the output file is never found.
AlreadyConvertedNever(files, track) == FALSE

\* out_mp3.exists()
AlreadyConverted(files, track) == OutMp3(track) \in files

\* multiplier = round(track.target_bpm / track.bpm, 3): the exception it
\* raises, or "none"
MultiplierRaises(track) ==
    IF track.target_bpm = NULL \/ BpmProperty(track) = NULL THEN "TypeError"
    ELSE IF BpmProperty(track)[1] = 0 THEN "ZeroDivisionError"
    ELSE "none"

\* What running ffmpeg can come to: it writes the output, or it exits with an
\* error, leaving no output or a partial one behind.
FfmpegOutcomes == {"ok", "fail", "failPartial"}

\* subprocess.run(cmd, check=True): the exception it raises, or "none".  A
\* wav_path of None cannot be put on a command line, and ffmpeg cannot
\* read a waveform that is not there.
TranscodeRaises(files, track, ffmpeg) ==
    IF track.wav_path = NULL THEN "TypeError"
    ELSE IF track.wav_path[1] \notin files \/ ffmpeg # "ok"
    THEN "CalledProcessError"
    ELSE "none"

\* Faulty variant of AfterTranscode: the waveform is removed whatever ffmpeg did.
AfterTranscodeUnlinkAlways(files, track, ffmpeg, unlinked) ==
    (IF ffmpeg = "fail" THEN files ELSE files \cup {OutMp3(track)})
        \ (IF track.wav_path # NULL THEN {track.wav_path[1]} ELSE {})

\* The files once subprocess.run is over: ffmpeg's output, and after a
\* transcode that did not raise the unlink of the waveform, which may fail
\* in silence.
AfterTranscode(files, track, ffmpeg, unlinked) ==
    IF TranscodeRaises(files, track, ffmpeg) = "TypeError" THEN files
    ELSE IF TranscodeRaises(files, track, ffmpeg) = "CalledProcessError"
    THEN (IF ffmpeg = "failPartial" THEN files \cup {OutMp3(track)} ELSE files)
    ELSE (files \cup {OutMp3(track)})
            \ (IF unlinked THEN {track.wav_path[1]} ELSE {})

\* convert(track): the files and the track it leaves, the exception it
\* raised, the number of times it ran ffmpeg and how ffmpeg ended ("notrun",
\* "ok" or "failed").
Convert(files, track, ffmpeg, unlinked) ==
    IF AlreadyConverted(files, track)
    THEN [files |-> files,
          track |-> [track EXCEPT !.mp3_path = Some(OutMp3(track))],
          raised |-> "none", transcodes |-> 0, exit |-> "notrun"]
    ELSE IF MultiplierRaises(track) # "none"
    THEN [files |-> files, track |-> track,
          raised |-> MultiplierRaises(track), transcodes |-> 0,
          exit |-> "notrun"]
    ELSE IF TranscodeRaises(files, track, ffmpeg) = "TypeError"
    THEN [files |-> files, track |-> track,
          raised |-> "TypeError", transcodes |-> 0, exit |-> "notrun"]
    ELSE IF TranscodeRaises(files, track, ffmpeg) # "none"
    THEN [files |-> AfterTranscode(files, track, ffmpeg, unlinked),
          track |-> track,
          raised |-> TranscodeRaises(files, track, ffmpeg),
          transcodes |-> 1, exit |-> "failed"]
    ELSE [files |-> AfterTranscode(files, track, ffmpeg, unlinked),
          track |-> [track EXCEPT !.mp3_path = Some(OutMp3(track))],
          raised |-> "none", transcodes |-> 1, exit |-> "ok"]

\* --------------------------------- PlaylistManager.compute_engagement_scores
\* multiplier = 10_000_000
ScoreMultiplier == 10000000

\* What the scorer gives back: the exception it raised or "none", the three
\* scores, and its comment_to_like.  Every amount is kept to its integer
\* part.
Scores(er, alt, log, c2l) ==
    [raised |-> "none", er |-> er, score_alt |-> alt, score_log |-> log,
     comment_to_like |-> c2l]

ScorerRaised(exc) ==
    [raised |-> exc, er |-> 0, score_alt |-> 0, score_log |-> 0,
     comment_to_like |-> 0]

\* math.log1p(vc) / math.log1p(multiplier), to its integer part: the largest
\* k with (multiplier + 1)^k <= vc + 1.
RECURSIVE ViewLogNorm(_)
ViewLogNorm(vc) ==
    IF vc + 1 < ScoreMultiplier + 1 THEN 0
    ELSE 1 + ViewLogNorm(((vc + 1) \div (ScoreMultiplier + 1)) - 1)

\* The scores of a video that has views.
ScoresOf(vc, lc, cc, comment_to_like) ==
    LET comment_rate == (cc * ScoreMultiplier) \div vc
        view_norm == vc \div ScoreMultiplier
        view_log_norm == ViewLogNorm(vc)
        score_alt == (7 * comment_rate + 3 * comment_to_like) \div 10 - view_norm
        score_log == (7 * comment_rate + 3 * comment_to_like) \div 10
                        - view_log_norm
        er == ((ScoreMultiplier \div 100) * (lc + cc)) \div vc
    IN  Scores(er, score_alt, score_log, comment_to_like)

\* Faulty variant of ComputeEngagementScores: cc / lc is computed whatever lc is.
ComputeEngagementScoresUnguarded(vc, lc, cc) ==
    IF vc = 0 THEN Scores(0, 0, 0, 0)
    ELSE IF lc = 0 THEN ScorerRaised("ZeroDivisionError")
    ELSE ScoresOf(vc, lc, cc, (cc * (ScoreMultiplier \div 100)) \div lc)

\* compute_engagement_scores(vc, lc, cc)
ComputeEngagementScores(vc, lc, cc) ==
    IF vc = 0 THEN Scores(0, 0, 0, 0)
    ELSE ScoresOf(vc, lc, cc,
                  IF lc # 0 THEN (cc * (ScoreMultiplier \div 100)) \div lc
                            ELSE 0)

\* ------------------------------------------ PlaylistManager.make_safe_title
\* s.strip(): the spaces at both ends go
RECURSIVE Strip(_)
Strip(s) ==
    IF s = <<>> THEN s
    ELSE IF s[1] = " " THEN Strip(Tail(s))
    ELSE IF s[Len(s)] = " " THEN Strip(SubSeq(s, 1, Len(s) - 1))
    ELSE s

\* s.replace("  ", " "): one pass from the left over occurrences that do not
\* overlap
RECURSIVE ReplaceDoubleSpaces(_)
ReplaceDoubleSpaces(s) ==
    IF Len(s) < 2 THEN s
    ELSE IF s[1] = " " /\ s[2] = " "
    THEN <<" ">> \o ReplaceDoubleSpaces(SubSeq(s, 3, Len(s)))
    ELSE <<s[1]>> \o ReplaceDoubleSpaces(Tail(s))

\* clean(s): re.sub(r"[^A-Za-z0-9 \-]", "", s).strip().replace("  ", " ")
CleanText(s) ==
    ReplaceDoubleSpaces(Strip(KeepChars(s, AsciiAlnum \cup {" ", "-"})))

\* The separator of the f-string of make_safe_title: space, U+2013, space.
TitleSeparator == <<" ", EnDash, " ">>

\* make_safe_title(title, artist, album)
MakeSafeTitle(title, artist, album) ==
    Take(Strip(CleanText(title) \o TitleSeparator \o CleanText(artist)
                  \o TitleSeparator \o CleanText(album)), 128)

\* A text so long that three of them exceed the length a safe title may have.
LongText == [k \in 1..50 |-> "a"]

\* The titles, artists and albums yt-dlp can report.
Texts ==
    {<<>>, <<"a">>, <<" ", "a", " ", " ", " ", "B", "/">>, <<"7", "e'", "-", "_">>,
     LongText}

\* ------------------------------------------- PlaylistManager.fetch_entries
\* The ages in days a timestamp can give: (datetime.now() -
\* datetime.fromtimestamp(ts)).days, which is -1 for a timestamp slightly
\* ahead of the clock.
AgeDays == {-1, 0, 5, 998}

\* age_weight = math.log(age_days + 2), in thousandths
AgeWeight(age_days) ==
    CASE age_days = -1 -> 0
      [] age_days = 0 -> 693
      [] age_days = 5 -> 1946
      [] age_days = 998 -> 6908

\* What yt-dlp reports for a video: its timestamp, as the age it gives or
\* NULL if there is none, and its counts.
Metas ==
    [age : {NULL} \cup {Some(a) : a \in AgeDays}, views : {0, 1000},
     likes : {0, 50}, comments : {0, 10}]

\* count / age_weight, to its integer part
AgeDivided(count, age_weight) == (count * 1000) \div age_weight

\* One turn of the loop over unique_urls, for the video with metadata meta,
\* entered with the local variable age_weight holding bound (NULL if it was
\* never assigned): the exception raised or "none", the local variable
\* afterwards, and the TrackDTO that is appended.
EntryOf(meta, bound) ==
    LET age_weight == IF meta.age # NULL THEN Some(AgeWeight(meta.age[1]))
                                        ELSE bound
    IN  IF age_weight = NULL
        THEN [raised |-> "UnboundLocalError", age_weight |-> age_weight,
              track |-> NULL]
        ELSE IF age_weight[1] = 0
        THEN [raised |-> "ZeroDivisionError", age_weight |-> age_weight,
              track |-> NULL]
        ELSE LET vc == AgeDivided(meta.views, age_weight[1])
                 lc == AgeDivided(meta.likes, age_weight[1])
                 cc == AgeDivided(meta.comments, age_weight[1])
             IN  [raised |-> "none", age_weight |-> age_weight,
                  track |-> Some([view_count |-> vc, like_count |-> lc,
                                  comment_count |-> cc,
                                  scores |-> ComputeEngagementScores(vc, lc, cc),
                                  age_weight |-> age_weight[1]])]

\* ---------------------------------------------------------- print_progress
\* print_progress(index, size, ...): everything it computes and prints is
\* inside try / except Exception, so it raises nothing.  The line it prints
\* shows completed = index + 1 and size; a size of 0 (completed / size) or a
\* print that fails ends in the except clause, and no progress line is shown.
PrintProgress(index, size, printed) ==
    IF size = 0 \/ ~printed
    THEN [shown |-> FALSE, completed |-> index + 1, size |-> size]
    ELSE [shown |-> TRUE, completed |-> index + 1, size |-> size]

\* -------------------------------------------- the Spotify enrichment
\* What the Spotify service does for the query of one track: "found" (a
\* track id and its audio features), "nomatch" (search_track returns None),
\* "nofeatures" (get_audio_features returns {}), "blank" (the title is
\* empty, InputValidator.validate raises ValueError).
SpotifyAnswers == {"found", "nomatch", "nofeatures", "blank"}

\* A TrackDTO of all_track_dtos as the enrichment sees it: id stands for
\* its (title, artist), answer for what the service does with that query.
EnrichTrack(id, answer) == [id |-> id, answer |-> answer, spotify |-> NULL]

\* The TrackInfo the service's data give for the query of track t.
TrackInfoOf(t) ==
    [track_id |-> t.id, time_signature |-> 3 + (t.id % 2), bpm |-> 100 + t.id]

\* BPMController.process(queries): one TrackInfo per query that found a
\* track with features; the others are passed over (continue).
RECURSIVE Process(_)
Process(queries) ==
    IF queries = <<>> THEN [raised |-> "none", results |-> <<>>]
    ELSE IF Head(queries).answer = "blank"
    THEN [raised |-> "ValueError", results |-> <<>>]
    ELSE LET rest == Process(Tail(queries)) IN
         IF rest.raised # "none" THEN rest
         ELSE IF Head(queries).answer = "found"
         THEN [rest EXCEPT !.results = <<TrackInfoOf(Head(queries))>> \o @]
         ELSE rest

\* for dto, info in zip(all_track_dtos, track_infos): the k-th info goes to
\* the k-th dto, up to the shorter of the two lists.
MapBack(dtos, infos) ==
    [k \in 1..Len(dtos) |->
        IF k <= Len(infos) THEN [dtos[k] EXCEPT !.spotify = Some(infos[k])]
        ELSE dtos[k]]

\* ------------------------------------ the loop of _generate_ranges
\* Values config.py can be edited to, an interval of zero or less included.
GenConfigs ==
    {[DefaultConfig EXCEPT !.min_bpm = lo, !.max_bpm = hi, !.interval = iv,
                           !.offset = ThreeQuarters(iv)] :
        lo \in {Bpm(100), Bpm(105), Bpm(120), Bpm(210)},
        hi \in {Bpm(105), Bpm(120), Bpm(200), Bpm(210)},
        iv \in {Bpm(-10), 0, Bpm(10), Bpm(20)}}

\* while start < self.max_bpm
LoopCondition(cfg, start) == start < cfg.max_bpm

\* The body of the loop: the tuple appended to ranges.
RangeAt(cfg, start) ==
    [low |-> start, high |-> start + cfg.interval,
     target |-> IntOf(start + cfg.offset)]

\* ------------------------------------------------------- load_playlists
\* The lines a playlist file is made of, each a sequence of pieces of text:
\* empty, blank, two genre headers (one of them padded with spaces) and two
\* urls (one padded and in capitals).
RawLines ==
    {<<>>, <<" ">>, <<"rock">>, <<" ", "jazz", " ">>, <<"http", "://a">>,
     <<" ", "HTTP", "://b">>}

\* str.lower() of a piece of text
Lower(piece) == IF piece = "HTTP" THEN "http" ELSE piece

\* not line.lower().startswith("http")
IsGenreLine(line) == Lower(line[1]) # "http"

\* playlists[genre] = [] on a dict kept as the sequence of its items in
\* insertion order: an existing key keeps its place and loses its list.
DictReset(d, genre) ==
    IF \E k \in 1..Len(d) : d[k].genre = genre
    THEN [k \in 1..Len(d) |->
             IF d[k].genre = genre THEN [d[k] EXCEPT !.urls = <<>>] ELSE d[k]]
    ELSE Append(d, [genre |-> genre, urls |-> <<>>])

\* playlists[genre].append(line)
DictAppend(d, genre, line) ==
    [k \in 1..Len(d) |->
        IF d[k].genre = genre THEN [d[k] EXCEPT !.urls = Append(@, line)]
        ELSE d[k]]

\* The loop over the lines of the file, from the given playlists and
\* current_genre (NULL for None) on.
RECURSIVE ReadLines(_, _, _)
ReadLines(raws, playlists, current_genre) ==
    IF raws = <<>> THEN [raised |-> "none", playlists |-> playlists]
    ELSE LET line == Strip(Head(raws)) IN
         IF line = <<>> THEN ReadLines(Tail(raws), playlists, current_genre)
         ELSE IF IsGenreLine(line)
         THEN ReadLines(Tail(raws), DictReset(playlists, line), Some(line))
         ELSE IF current_genre = NULL
         THEN [raised |-> "ValueError", playlists |-> playlists]
         ELSE ReadLines(Tail(raws),
                        DictAppend(playlists, current_genre[1], line),
                        current_genre)

\* load_playlists(file_path): except Exception returns {}.
LoadPlaylists(raws) ==
    LET out == ReadLines(raws, <<>>, NULL) IN
    IF out.raised # "none" THEN <<>> ELSE out.playlists

\* ------------------------------------------------------------------ state
VARIABLES
    db,           \* the SQLite store: [schema, rows]
    pc,           \* where run() stands: idle, select, pipeline, returned, aborted
    runs,         \* calls of run() finished so far
    variant,      \* which script runs: "app" (src/app.py) or "main" (src/main.py)
    process_all,  \* run()'s process_all_entries
    nPlaylists,   \* len(playlist_urls)
    existing,     \* keys of existing_tracks_by_url
    enumerated,   \* what get_links returned, per playlist of this run
    selected,     \* selected_tracks, per playlist of this run
    all_tracks,   \* all_tracks_by_url (values in insertion order)
    unique,       \* unique_tracks
    i,            \* tracks of unique_tracks the second loop has finished
    results,      \* results
    log,          \* the stage calls of this run, in order
    abortedIn,    \* the part of run() an uncaught exception left, or "none"
    processedAtStart, \* urls whose stored row had both tempos when run() loaded
    doneBefore,   \* urls get_processed_urls reported at the end of an earlier run
    sel_pc,       \* the selection applied to one playlist: off, input, done, raised
    sel_mode,     \* process_all_entries of that application
    sel_in,       \* the tracks fetch_entries returned for the playlist
    sel_out,      \* the selected_tracks computed from them
    bz_pc,        \* a BPMAnalyzer: off, config, ready, extracted, done
    bz_cfg,       \* the values of config.py it was constructed from
    bz_ranges,    \* self.bpm_ranges
    bz_raw,       \* the raw tempo the estimator gave extract()
    bz_norm,      \* what extract() returned
    bz_out,       \* what choose_target did with it
    tr_pc,        \* a TrackDTO whose bpm is read: off, made, read
    tr_track,     \* the TrackDTO
    tr_bpm,       \* the value of its bpm property
    ex_pc,        \* a call of extract(): off, wav, done
    ex_cfg,       \* the values of config.py of its BPMAnalyzer
    ex_wav,       \* what the estimators do with the waveform it is given
    ex_res,       \* the estimators it ran and what it returned or raised
    f_files,      \* the files of the Downloader's output_dir
    f_titles,     \* the title yt-dlp reports for each url
    f_url,        \* per caller of download_wav: the url it asks for
    f_pc,         \* per caller: idle, absent, waiting, returned, raised
    f_hist,       \* per caller: its calls so far, the last one maybe running
    cv_pc,        \* a Converter at work on one track: off, ready
    cv_track,     \* the track: safe_title, wav_path, tempos, target, mp3_path
    cv_files,     \* the files of the output directories
    cv_calls,     \* the calls of convert(track) made so far
    cv_last,      \* the last call: what it found and what it did
    sc_pc,        \* a call of the scorer: off, input, done
    sc_in,        \* its arguments vc, lc, cc
    sc_out,       \* what it gave back
    pg_pc,        \* the second loop of run(): off, loop, returned
    pg_tracks,    \* unique_tracks
    pg_i,         \* the items the loop has finished
    pg_results,   \* results
    pg_excs,      \* per finished item, the exception its try block raised
    pg_envs,      \* per finished item, what the collaborators did for it
    pg_reports,   \* the calls of print_progress the loop has made
    st_pc,        \* a call of make_safe_title: off, input, done
    st_in,        \* its arguments title, artist, album
    st_out,       \* the safe title it returned
    en_pc,        \* the metadata loop of fetch_entries: off, loop, returned, raised
    en_metas,     \* what yt-dlp reports for the videos of unique_urls
    en_k,         \* the videos the loop has gone through
    en_age_weight, \* the local variable age_weight (NULL while unassigned)
    en_tracks,    \* per video gone through, the TrackDTO appended for it
    en_exc,       \* the exception that left fetch_entries, or "none"
    sp_pc,        \* the enrichment: off, queries, processed, mapped, raised
    sp_tracks,    \* all_track_dtos
    sp_infos,     \* track_infos, what process returned
    gn_pc,        \* _generate_ranges: off, loop, returned
    gn_cfg,       \* the configuration it reads
    gn_start,     \* its local variable start
    gn_ranges,    \* its local variable ranges
    pl_pc,        \* load_playlists: off, file, loaded
    pl_file,      \* the lines of the playlist file
    pl_out        \* the dict returned, as its items in order

runvars == <<db, pc, runs, variant, process_all, nPlaylists, existing,
             enumerated, selected, all_tracks, unique, i, results, log,
             abortedIn, processedAtStart, doneBefore>>

selvars == <<sel_pc, sel_mode, sel_in, sel_out>>

bpmvars == <<bz_pc, bz_cfg, bz_ranges, bz_raw, bz_norm, bz_out>>

trvars == <<tr_pc, tr_track, tr_bpm>>

exvars == <<ex_pc, ex_cfg, ex_wav, ex_res>>

fetchvars == <<f_files, f_titles, f_url, f_pc, f_hist>>

convertvars == <<cv_pc, cv_track, cv_files, cv_calls, cv_last>>

scorevars == <<sc_pc, sc_in, sc_out>>

progressvars == <<pg_pc, pg_tracks, pg_i, pg_results, pg_excs, pg_envs,
                  pg_reports>>

titlevars == <<st_pc, st_in, st_out>>

entryvars == <<en_pc, en_metas, en_k, en_age_weight, en_tracks, en_exc>>

enrichvars == <<sp_pc, sp_tracks, sp_infos>>

genvars == <<gn_pc, gn_cfg, gn_start, gn_ranges>>

plvars == <<pl_pc, pl_file, pl_out>>

latervars == <<exvars, fetchvars, convertvars, scorevars, progressvars,
    titlevars, entryvars, enrichvars, genvars, plvars>>

\* Per later specification: every variable but its own.
exceptExtract == <<runvars, selvars, bpmvars, trvars, fetchvars, convertvars,
    scorevars, progressvars, titlevars, entryvars, enrichvars, genvars, plvars>>

exceptFetch == <<runvars, selvars, bpmvars, trvars, exvars, convertvars,
    scorevars, progressvars, titlevars, entryvars, enrichvars, genvars, plvars>>

exceptConvert == <<runvars, selvars, bpmvars, trvars, exvars, fetchvars,
    scorevars, progressvars, titlevars, entryvars, enrichvars, genvars, plvars>>

exceptScore == <<runvars, selvars, bpmvars, trvars, exvars, fetchvars,
    convertvars, progressvars, titlevars, entryvars, enrichvars, genvars,
    plvars>>

exceptProgress == <<runvars, selvars, bpmvars, trvars, exvars, fetchvars,
    convertvars, scorevars, titlevars, entryvars, enrichvars, genvars, plvars>>

exceptTitle == <<runvars, selvars, bpmvars, trvars, exvars, fetchvars,
    convertvars, scorevars, progressvars, entryvars, enrichvars, genvars,
    plvars>>

exceptEntries == <<runvars, selvars, bpmvars, trvars, exvars, fetchvars,
    convertvars, scorevars, progressvars, titlevars, enrichvars, genvars,
    plvars>>

exceptEnrich == <<runvars, selvars, bpmvars, trvars, exvars, fetchvars,
    convertvars, scorevars, progressvars, titlevars, entryvars, genvars,
    plvars>>

exceptGen == <<runvars, selvars, bpmvars, trvars, exvars, fetchvars,
    convertvars, scorevars, progressvars, titlevars, entryvars, enrichvars,
    plvars>>

exceptPlaylists == <<runvars, selvars, bpmvars, trvars, exvars, fetchvars,
    convertvars, scorevars, progressvars, titlevars, entryvars, enrichvars,
    genvars>>

othervars == <<bpmvars, trvars, latervars>>

vars == <<runvars, selvars, othervars>>

locals == <<variant, process_all, nPlaylists, existing, enumerated, selected,
            all_tracks, unique, i, results, log, abortedIn, processedAtStart>>

Variants == {"app", "main"}

InitRun ==
    /\ db = [schema |-> "absent", rows |-> <<>>]
    /\ pc = "idle"
    /\ runs = 0
    /\ variant = "app"
    /\ process_all = TRUE
    /\ nPlaylists = 0
    /\ existing = {}
    /\ enumerated = <<>>
    /\ selected = <<>>
    /\ all_tracks = <<>>
    /\ unique = <<>>
    /\ i = 0
    /\ results = <<>>
    /\ log = <<>>
    /\ abortedIn = "none"
    /\ processedAtStart = {}
    /\ doneBefore = {}

SelOff ==
    /\ sel_pc = "off"
    /\ sel_mode = TRUE
    /\ sel_in = <<>>
    /\ sel_out = <<>>

\* No BPMAnalyzer under observation.
BpmOff ==
    /\ bz_pc = "off"
    /\ bz_cfg = DefaultConfig
    /\ bz_ranges = <<>>
    /\ bz_raw = 0
    /\ bz_norm = 0
    /\ bz_out = [raised |-> FALSE, target |-> 0]

\* No TrackDTO under observation.
TrackOff ==
    /\ tr_pc = "off"
    /\ tr_track = TrackDTO("u1")
    /\ tr_bpm = NULL

\* No call of extract() under observation.
ExtractOff ==
    /\ ex_pc = "off"
    /\ ex_cfg = DefaultConfig
    /\ ex_wav = [essentia |-> NULL, librosa |-> NULL]
    /\ ex_res = [calls |-> <<>>, raised |-> FALSE, bpm |-> 0]

\* The processes that may call download_wav on one output_dir.
Callers == {1, 2}

\* No Downloader under observation.
FetchOff ==
    /\ f_files = {}
    /\ f_titles = [u \in Urls |-> <<>>]
    /\ f_url = [p \in Callers |-> "u1"]
    /\ f_pc = [p \in Callers |-> "off"]
    /\ f_hist = [p \in Callers |-> <<>>]

\* The track a Converter is given: the fields of TrackDTO that convert reads
\* or writes.
ConvertTrack(title, wav, ess, lib, target) ==
    [safe_title |-> title, wav_path |-> wav, bpm_essentia |-> ess,
     bpm_librosa |-> lib, target_bpm |-> target, mp3_path |-> NULL]

\* What is kept of a call of convert: had tells whether the output file was
\* there when it began, wavBefore whether the waveform was, pathBefore is
\* the mp3_path the track had, kept tells whether every file was left as it
\* was.
NoConvertCall ==
    [had |-> FALSE, wavBefore |-> FALSE, pathBefore |-> NULL, kept |-> TRUE,
     raised |-> "none", transcodes |-> 0, exit |-> "notrun"]

\* No Converter under observation.
ConvertOff ==
    /\ cv_pc = "off"
    /\ cv_track = ConvertTrack(<<>>, NULL, NULL, NULL, NULL)
    /\ cv_files = {}
    /\ cv_calls = 0
    /\ cv_last = NoConvertCall

\* No call of the scorer under observation.
ScoreOff ==
    /\ sc_pc = "off"
    /\ sc_in = [vc |-> 0, lc |-> 0, cc |-> 0]
    /\ sc_out = Scores(0, 0, 0, 0)

\* No loop under observation.
ProgressOff ==
    /\ pg_pc = "off"
    /\ pg_tracks = <<>>
    /\ pg_i = 0
    /\ pg_results = <<>>
    /\ pg_excs = <<>>
    /\ pg_envs = <<>>
    /\ pg_reports = <<>>

\* No call of make_safe_title under observation.
TitleOff ==
    /\ st_pc = "off"
    /\ st_in = [title |-> <<>>, artist |-> <<>>, album |-> <<>>]
    /\ st_out = <<>>

\* No call of fetch_entries under observation.
EntriesOff ==
    /\ en_pc = "off"
    /\ en_metas = <<>>
    /\ en_k = 0
    /\ en_age_weight = NULL
    /\ en_tracks = <<>>
    /\ en_exc = "none"

\* No enrichment under observation.
EnrichOff ==
    /\ sp_pc = "off"
    /\ sp_tracks = <<>>
    /\ sp_infos = <<>>

\* No call of _generate_ranges under observation.
GenOff ==
    /\ gn_pc = "off"
    /\ gn_cfg = DefaultConfig
    /\ gn_start = 0
    /\ gn_ranges = <<>>

\* No playlist file under observation.
PlaylistsOff ==
    /\ pl_pc = "off"
    /\ pl_file = <<>>
    /\ pl_out = <<>>

LaterOff == ExtractOff /\ FetchOff /\ ConvertOff /\ ScoreOff /\
    ProgressOff /\ TitleOff /\ EntriesOff /\ EnrichOff /\ GenOff /\
    PlaylistsOff

\* Per later specification: nothing else is under observation.
OnlyExtract == InitRun /\ SelOff /\ BpmOff /\ TrackOff /\ FetchOff /\
    ConvertOff /\ ScoreOff /\ ProgressOff /\ TitleOff /\ EntriesOff /\
    EnrichOff /\ GenOff /\ PlaylistsOff

OnlyFetch == InitRun /\ SelOff /\ BpmOff /\ TrackOff /\ ExtractOff /\
    ConvertOff /\ ScoreOff /\ ProgressOff /\ TitleOff /\ EntriesOff /\
    EnrichOff /\ GenOff /\ PlaylistsOff

OnlyConvert == InitRun /\ SelOff /\ BpmOff /\ TrackOff /\ ExtractOff /\
    FetchOff /\ ScoreOff /\ ProgressOff /\ TitleOff /\ EntriesOff /\
    EnrichOff /\ GenOff /\ PlaylistsOff

OnlyScore == InitRun /\ SelOff /\ BpmOff /\ TrackOff /\ ExtractOff /\
    FetchOff /\ ConvertOff /\ ProgressOff /\ TitleOff /\ EntriesOff /\
    EnrichOff /\ GenOff /\ PlaylistsOff

OnlyProgress == InitRun /\ SelOff /\ BpmOff /\ TrackOff /\ ExtractOff /\
    FetchOff /\ ConvertOff /\ ScoreOff /\ TitleOff /\ EntriesOff /\
    EnrichOff /\ GenOff /\ PlaylistsOff

OnlyTitle == InitRun /\ SelOff /\ BpmOff /\ TrackOff /\ ExtractOff /\
    FetchOff /\ ConvertOff /\ ScoreOff /\ ProgressOff /\ EntriesOff /\
    EnrichOff /\ GenOff /\ PlaylistsOff

OnlyEntries == InitRun /\ SelOff /\ BpmOff /\ TrackOff /\ ExtractOff /\
    FetchOff /\ ConvertOff /\ ScoreOff /\ ProgressOff /\ TitleOff /\
    EnrichOff /\ GenOff /\ PlaylistsOff

OnlyEnrich == InitRun /\ SelOff /\ BpmOff /\ TrackOff /\ ExtractOff /\
    FetchOff /\ ConvertOff /\ ScoreOff /\ ProgressOff /\ TitleOff /\
    EntriesOff /\ GenOff /\ PlaylistsOff

OnlyGen == InitRun /\ SelOff /\ BpmOff /\ TrackOff /\ ExtractOff /\
    FetchOff /\ ConvertOff /\ ScoreOff /\ ProgressOff /\ TitleOff /\
    EntriesOff /\ EnrichOff /\ PlaylistsOff

OnlyPlaylists == InitRun /\ SelOff /\ BpmOff /\ TrackOff /\ ExtractOff /\
    FetchOff /\ ConvertOff /\ ScoreOff /\ ProgressOff /\ TitleOff /\
    EntriesOff /\ EnrichOff /\ GenOff

Init == InitRun /\ SelOff /\ BpmOff /\ TrackOff /\ LaterOff

\* persistence.init_db(db_path), called between two runs.
InitDb ==
    /\ pc = "idle"
    /\ db' = EnsureSchema(db)
    /\ UNCHANGED <<pc, runs, locals, doneBefore, selvars, othervars>>

\* persistence.save_track_list([t], db_path), called between two runs.
CallSaveTrackList ==
    /\ pc = "idle"
    /\ \E u \in Urls, s \in Snapshots, sh \in PipelineShapes :
          db' = SaveTrackList(db, <<ShapedTrack(u, s, sh)>>)
    /\ UNCHANGED <<pc, runs, locals, doneBefore, selvars, othervars>>

\* run(playlist_urls, process_all_entries, ...) up to its first loop:
\* all_tracks_by_url = {}; existing_tracks_by_url = self.load_tracks()
RunStart ==
    /\ pc = "idle"
    /\ runs < MaxRuns
    /\ \E v \in Variants, mode \in BOOLEAN, n \in 0..MaxPlaylists :
          /\ variant' = v
          /\ process_all' = mode
          /\ nPlaylists' = n
          /\ processedAtStart' =
                {u \in DOMAIN db.rows : FullyProcessedRow(db.rows[u])}
          /\ IF LoadTracksRaises(v, db)
             THEN /\ pc' = "aborted"
                  /\ abortedIn' = "load"
                  /\ existing' = {}
             ELSE /\ pc' = "select"
                  /\ abortedIn' = "none"
                  /\ existing' = LoadTracks(db)
    /\ UNCHANGED <<db, runs, enumerated, selected, all_tracks, unique, i,
                   results, log, doneBefore, selvars, othervars>>

\* One iteration of the first loop: get_links (which saves what it
\* enumerated), the selection, and the merge into all_tracks_by_url.
RunPlaylist ==
    /\ pc = "select"
    /\ Len(enumerated) < nPlaylists
    /\ \E fetched \in Enumerations :
          LET tracks == GetLinksReturn(fetched, MaxTracksPerPlaylist) IN
          /\ db' = SaveTracksDb(db, fetched)
          /\ enumerated' = Append(enumerated, tracks)
          /\ IF SelectRaises(process_all, tracks)
             THEN /\ pc' = "aborted"
                  /\ abortedIn' = "select"
                  /\ UNCHANGED <<selected, all_tracks>>
             ELSE /\ selected' = Append(selected, SelectTracks(process_all, tracks))
                  /\ all_tracks' = MergeSelected(all_tracks,
                                       SelectTracks(process_all, tracks), existing)
                  /\ UNCHANGED <<pc, abortedIn>>
    /\ UNCHANGED <<runs, variant, process_all, nPlaylists, existing, unique, i,
                   results, log, processedAtStart, doneBefore, selvars, othervars>>

\* unique_tracks = list(all_tracks_by_url.values()); results = [];
\* self.save_tracks(unique_tracks)
RunSaveTracks ==
    /\ pc = "select"
    /\ Len(enumerated) = nPlaylists
    /\ unique' = all_tracks
    /\ IF SaveTracksRaises(variant, all_tracks)
       THEN /\ pc' = "aborted"
            /\ abortedIn' = "save"
            /\ UNCHANGED db
       ELSE /\ pc' = "pipeline"
            /\ db' = SaveTracks(variant, db, all_tracks)
            /\ UNCHANGED abortedIn
    /\ UNCHANGED <<runs, variant, process_all, nPlaylists, existing, enumerated,
                   selected, all_tracks, i, results, log, processedAtStart, doneBefore,
                   selvars, othervars>>

\* One iteration of the second loop: the try block and its except clause.
RunPipelineItem ==
    /\ pc = "pipeline"
    /\ i < Len(unique)
    /\ \E env \in Envs :
          LET st == TryBody(variant, unique[i + 1], env) IN
          /\ log' = log \o st.calls
          /\ unique' = [unique EXCEPT ![i + 1] = st.track]
          /\ results' = IF Appended(st) THEN Append(results, st.track) ELSE results
          /\ IF st.exc = "none" \/ Caught(st.exc)
             THEN /\ i' = i + 1
                  /\ UNCHANGED <<pc, abortedIn>>
             ELSE /\ pc' = "aborted"
                  /\ abortedIn' = "pipeline"
                  /\ UNCHANGED i
    /\ UNCHANGED <<db, runs, variant, process_all, nPlaylists, existing,
                   enumerated, selected, all_tracks, processedAtStart, doneBefore,
                   selvars, othervars>>

\* return results
RunReturn ==
    /\ pc = "pipeline"
    /\ i = Len(unique)
    /\ pc' = "returned"
    /\ UNCHANGED <<db, runs, locals, doneBefore, selvars, othervars>>

\* The call of run() is over (returned or raised): its locals are gone.
RunExit ==
    /\ pc \in {"returned", "aborted"}
    /\ pc' = "idle"
    /\ runs' = runs + 1
    /\ doneBefore' = doneBefore \cup GetProcessedUrls(db)
    /\ variant' = "app"
    /\ process_all' = TRUE
    /\ nPlaylists' = 0
    /\ existing' = {}
    /\ enumerated' = <<>>
    /\ selected' = <<>>
    /\ all_tracks' = <<>>
    /\ unique' = <<>>
    /\ i' = 0
    /\ results' = <<>>
    /\ log' = <<>>
    /\ abortedIn' = "none"
    /\ processedAtStart' = {}
    /\ UNCHANGED <<db, selvars, othervars>>

Next ==
    \/ InitDb
    \/ CallSaveTrackList
    \/ RunStart
    \/ RunPlaylist
    \/ RunSaveTracks
    \/ RunPipelineItem
    \/ RunReturn
    \/ RunExit

Spec == Init /\ [][Next]_vars

\* ------------------------------------------- the selection on one playlist
\* The statistics a video of the playlist can have: (score_alt, score_log,
\* view_count).  The three kinds make the three rankings disagree (the
\* second kind leads by view_count only), tie (score_log of the first two,
\* view_count of the first and the last), and, with up to MaxSelLen videos,
\* leave videos out of every top five.
Profiles == {<<2, 1, 0>>, <<1, 1, 1>>, <<0, 0, 0>>}

\* The track of the j-th video of a playlist; its url is its position
\* (fetch_entries keeps one track per url).
ProfiledTrack(j, pr) ==
    [TrackDTO(j) EXCEPT
        !.engagement_score_alt = Some(pr[1]),
        !.engagement_score_log = Some(pr[2]),
        !.view_count = Some(pr[3]),
        !.title = Some(j)]

RECURSIVE ProfileSeqs(_)
ProfileSeqs(n) ==
    IF n = 0 THEN {<<>>}
    ELSE ProfileSeqs(n - 1) \cup
         {Append(q, pr) : q \in {x \in ProfileSeqs(n - 1) : Len(x) = n - 1},
                          pr \in Profiles}

SelPlaylists ==
    {[j \in 1..Len(q) |-> ProfiledTrack(j, q[j])] : q \in ProfileSeqs(MaxSelLen)}

InitSelect ==
    /\ InitRun
    /\ sel_pc = "input"
    /\ sel_mode \in BOOLEAN
    /\ sel_in \in SelPlaylists
    /\ sel_out = <<>>
    /\ BpmOff /\ TrackOff /\ LaterOff

\* Lines 240-253 of run() on one playlist: tracks = get_links(...), then the
\* exhaustive or the curated branch.
SelApply ==
    /\ sel_pc = "input"
    /\ LET tracks == GetLinksReturn(sel_in, MaxTracksPerPlaylist) IN
       IF SelectRaises(sel_mode, tracks)
       THEN sel_pc' = "raised" /\ sel_out' = <<>>
       ELSE sel_pc' = "done" /\ sel_out' = SelectTracks(sel_mode, tracks)
    /\ UNCHANGED <<sel_mode, sel_in, runvars, othervars>>

NextSelect == SelApply

SpecSelect == InitSelect /\ [][NextSelect]_vars

\* ------------------------------------------------- the store's writers
\* PlaylistManager.get_links called on its own: the enumeration writes what
\* it found.
CallGetLinks ==
    /\ pc = "idle"
    /\ \E fetched \in Enumerations : db' = SaveTracksDb(db, fetched)
    /\ UNCHANGED <<pc, runs, locals, doneBefore, selvars, othervars>>

\* BeatForgeRunner.save_tracks(tracks) of either script called on its own.
\* main.py's raises on the first track (SaveTracksRaises) before it opens
\* the database.
CallSaveTracks ==
    /\ pc = "idle"
    /\ \E v \in Variants, tracks \in Enumerations :
          db' = IF SaveTracksRaises(v, tracks) THEN db
                ELSE SaveTracks(v, db, tracks)
    /\ UNCHANGED <<pc, runs, locals, doneBefore, selvars, othervars>>

NextStore ==
    \/ InitDb
    \/ CallSaveTrackList
    \/ CallGetLinks
    \/ CallSaveTracks

SpecStore == Init /\ [][NextStore]_vars

\* ------------------------------------------------- one BPMAnalyzer at work
InitBucket ==
    /\ InitRun /\ SelOff /\ TrackOff /\ LaterOff
    /\ bz_pc = "config"
    /\ bz_cfg \in Configs
    /\ bz_ranges = <<>>
    /\ bz_raw = 0
    /\ bz_norm = 0
    /\ bz_out = [raised |-> FALSE, target |-> 0]

\* BPMAnalyzer(): __init__ reads config.py and generates the ranges.  It
\* raises nothing, whatever the ranges are.
Construct ==
    /\ bz_pc = "config"
    /\ bz_pc' = "ready"
    /\ bz_ranges' = GenerateRanges(bz_cfg)
    /\ UNCHANGED <<bz_cfg, bz_raw, bz_norm, bz_out, runvars, selvars, trvars, latervars>>

\* raw_bpm = analyzer.extract(wav_path): the estimate, normalized.
Extract ==
    /\ bz_pc = "ready"
    /\ \E raw \in RawTempos :
          /\ bz_raw' = raw
          /\ bz_norm' = NormalizeBpm(bz_cfg, raw)
    /\ bz_pc' = "extracted"
    /\ UNCHANGED <<bz_cfg, bz_ranges, bz_out, runvars, selvars, trvars, latervars>>

\* target_bpm = analyzer.choose_target(raw_bpm)
Choose ==
    /\ bz_pc = "extracted"
    /\ bz_out' = ChooseTarget(bz_ranges, bz_norm)
    /\ bz_pc' = "done"
    /\ UNCHANGED <<bz_cfg, bz_ranges, bz_raw, bz_norm, runvars, selvars, trvars, latervars>>

NextBucket ==
    \/ Construct
    \/ Extract
    \/ Choose

SpecBucket == InitBucket /\ [][NextBucket]_vars

\* ------------------------------------------------ the bpm of one TrackDTO
InitTrack ==
    /\ InitRun /\ SelOff /\ BpmOff /\ LaterOff
    /\ tr_pc = "made"
    /\ \E lib \in Estimates, ess \in Estimates :
          tr_track = [TrackDTO("u1") EXCEPT !.bpm_librosa = lib,
                                            !.bpm_essentia = ess]
    /\ tr_bpm = NULL

\* track.bpm
ReadBpm ==
    /\ tr_pc = "made"
    /\ tr_bpm' = BpmProperty(tr_track)
    /\ tr_pc' = "read"
    /\ UNCHANGED <<tr_track, runvars, selvars, bpmvars, latervars>>

NextTrack == ReadBpm

SpecTrack == InitTrack /\ [][NextTrack]_vars

\* ------------------------------------------------- one call of extract()
InitExtract ==
    /\ OnlyExtract
    /\ ex_pc = "wav"
    /\ ex_cfg \in Configs
    /\ ex_wav \in Waveforms
    /\ ex_res = [calls |-> <<>>, raised |-> FALSE, bpm |-> 0]

\* analyzer.extract(wav_path)
CallExtract ==
    /\ ex_pc = "wav"
    /\ ex_res' = ExtractTempo(ex_cfg, ex_wav)
    /\ ex_pc' = "done"
    /\ UNCHANGED <<ex_cfg, ex_wav, exceptExtract>>

NextExtract == CallExtract

SpecExtract == InitExtract /\ [][NextExtract]_vars

\* ---------------------------------------------- calls of download_wav
\* The files an output_dir can hold before the first call.
OldFiles ==
    {OutputFile(SafeFilename(t), ext) : t \in VideoTitles, ext \in {"wav", "mp3"}}

\* The first record of a call: had tells whether the waveform was there when
\* the call began, downloads counts the runs of ydl.download, kept tells
\* whether the call has left every file as it was, polls counts the sleeps of
\* _wait_for_file, seen is the value of polls when the waveform appeared (0
\* if ydl.download left it behind, -1 if it has not appeared).
CallRecord(had, res) ==
    [had |-> had, downloads |-> 0, kept |-> TRUE, polls |-> 0, seen |-> -1,
     res |-> res]

Pending == Returned(<<>>)

ThisCall(p) == f_hist[p][Len(f_hist[p])]

SetThisCall(p, rec) ==
    [f_hist EXCEPT ![p] = [@ EXCEPT ![Len(@)] = rec]]

InitFetchWith(callers) ==
    /\ OnlyFetch
    /\ f_files \in SUBSET OldFiles
    /\ f_titles \in [Urls -> VideoTitles]
    /\ f_url \in [Callers -> Urls]
    /\ f_url[1] = "u1"
    /\ \A p \in Callers \ callers : f_url[p] = "u1"
    /\ \A u \in Urls \ {f_url[p] : p \in callers} : f_titles[u] = <<"a", " ", "B">>
    /\ f_pc = [p \in Callers |-> IF p \in callers THEN "idle" ELSE "off"]
    /\ f_hist = [p \in Callers |-> <<>>]

\* download_wav(url) up to its test of os.path.exists(wav_path): the title
\* is asked of yt-dlp, which may raise; an existing waveform is returned.
FetchCall(p) ==
    /\ f_pc[p] \in {"idle", "returned", "raised"}
    /\ Len(f_hist[p]) < MaxFetchCalls
    /\ LET wav == WavPath(f_titles[f_url[p]])
           had == wav \in f_files
       IN  \E titleFound \in BOOLEAN :
              IF ~titleFound
              THEN /\ f_pc' = [f_pc EXCEPT ![p] = "raised"]
                   /\ f_hist' = [f_hist EXCEPT ![p] =
                          Append(@, CallRecord(had, Raised("DownloadError")))]
              ELSE IF had
              THEN /\ f_pc' = [f_pc EXCEPT ![p] = "returned"]
                   /\ f_hist' = [f_hist EXCEPT ![p] =
                          Append(@, CallRecord(had, Returned(wav)))]
              ELSE /\ f_pc' = [f_pc EXCEPT ![p] = "absent"]
                   /\ f_hist' = [f_hist EXCEPT ![p] =
                          Append(@, CallRecord(had, Pending))]
    /\ UNCHANGED <<f_files, f_titles, f_url, exceptFetch>>

\* _cleanup_conflicts(safe_title), then ydl.download([url]): it raises, or it
\* returns with the waveform written, or it returns without it.
FetchDownload(p) ==
    /\ f_pc[p] = "absent"
    /\ LET base == SafeFilename(f_titles[f_url[p]])
           wav == OutputFile(base, "wav")
           cleaned == CleanupConflicts(f_files, base)
       IN  \E outcome \in {"raise", "wav", "nothing"} :
              /\ f_files' = IF outcome = "wav" THEN cleaned \cup {wav}
                                               ELSE cleaned
              /\ f_pc' = [f_pc EXCEPT ![p] =
                             IF outcome = "raise" THEN "raised" ELSE "waiting"]
              /\ f_hist' = SetThisCall(p,
                     [ThisCall(p) EXCEPT
                         !.downloads = @ + 1,
                         !.seen = IF outcome = "wav" THEN 0 ELSE -1,
                         !.kept = (cleaned = f_files /\ outcome # "wav"),
                         !.res = IF outcome = "raise"
                                 THEN Raised("DownloadError") ELSE Pending])
    /\ UNCHANGED <<f_titles, f_url, exceptFetch>>

\* One turn of the loop of _wait_for_file, and what download_wav does with
\* its result.
FetchPoll(p) ==
    /\ f_pc[p] = "waiting"
    /\ LET wav == WavPath(f_titles[f_url[p]])
           call == ThisCall(p)
       IN  IF wav \in f_files
           THEN /\ f_pc' = [f_pc EXCEPT ![p] = "returned"]
                /\ f_hist' = SetThisCall(p, [call EXCEPT !.res = Returned(wav)])
           ELSE IF TimedOut(call.polls)
           THEN /\ f_pc' = [f_pc EXCEPT ![p] = "raised"]
                /\ f_hist' = SetThisCall(p,
                       [call EXCEPT !.res = Raised("TimeoutError")])
           ELSE /\ f_pc' = f_pc
                /\ f_hist' = SetThisCall(p, [call EXCEPT !.polls = @ + 1])
    /\ UNCHANGED <<f_files, f_titles, f_url, exceptFetch>>

\* The waveform a caller waits for appears in the output_dir.
Materialize(p) ==
    /\ f_pc[p] = "waiting"
    /\ WavPath(f_titles[f_url[p]]) \notin f_files
    /\ f_files' = f_files \cup {WavPath(f_titles[f_url[p]])}
    /\ f_hist' = SetThisCall(p, [ThisCall(p) EXCEPT !.seen = ThisCall(p).polls])
    /\ UNCHANGED <<f_titles, f_url, f_pc, exceptFetch>>

InitFetch == InitFetchWith({1})

NextFetch ==
    \/ FetchCall(1)
    \/ FetchDownload(1)
    \/ FetchPoll(1)
    \/ Materialize(1)

SpecFetch == InitFetch /\ [][NextFetch]_vars

\* ------------------------------------------------- calls of convert(track)
\* The target tempos and the estimates a track can come with.
ConvertTargets == {NULL, Some(112), Some(122)}

ConvertEstimates == {NULL, Some(0), Some(Bpm(118))}

InitConvert ==
    /\ OnlyConvert
    /\ cv_pc = "ready"
    /\ \E wav \in {NULL, Some(WavPath(<<"a", " ", "B">>))},
          ess \in ConvertEstimates, lib \in {NULL, Some(Bpm(118))},
          target \in ConvertTargets :
          cv_track = ConvertTrack(<<"a", " ", "B">>, wav, ess, lib, target)
    /\ cv_files \in SUBSET ({WavPath(<<"a", " ", "B">>)} \cup
                            {<<t, <<"a", " ", "B">>, "mp3">> :
                                t \in ConvertTargets \ {NULL}})
    /\ cv_calls = 0
    /\ cv_last = NoConvertCall

\* self.converter.convert(track)
CallConvert ==
    /\ cv_pc = "ready"
    /\ cv_calls < MaxConvertCalls
    /\ \E ffmpeg \in FfmpegOutcomes, unlinked \in BOOLEAN :
          LET out == Convert(cv_files, cv_track, ffmpeg, unlinked)
          IN  /\ cv_files' = out.files
              /\ cv_track' = out.track
              /\ cv_last' =
                     [had |-> OutMp3(cv_track) \in cv_files,
                      wavBefore |-> /\ cv_track.wav_path # NULL
                                    /\ cv_track.wav_path[1] \in cv_files,
                      pathBefore |-> cv_track.mp3_path,
                      kept |-> out.files = cv_files,
                      raised |-> out.raised,
                      transcodes |-> out.transcodes,
                      exit |-> out.exit]
    /\ cv_calls' = cv_calls + 1
    /\ UNCHANGED <<cv_pc, exceptConvert>>

NextConvert == CallConvert

SpecConvert == InitConvert /\ [][NextConvert]_vars

\* ------------------------------------------------- one call of the scorer
\* The counts the scorer is called with.
Counts == {0, 1, 2, 50, 1000}

InitScore ==
    /\ OnlyScore
    /\ sc_pc = "input"
    /\ sc_in \in [vc : Counts \cup {ScoreMultiplier}, lc : Counts,
                   cc : {0, 1, 2, 20}]
    /\ sc_out = Scores(0, 0, 0, 0)

\* self.compute_engagement_scores(vc, lc, cc)
CallScorer ==
    /\ sc_pc = "input"
    /\ sc_out' = ComputeEngagementScores(sc_in.vc, sc_in.lc, sc_in.cc)
    /\ sc_pc' = "done"
    /\ UNCHANGED <<sc_in, exceptScore>>

NextScore == CallScorer

SpecScore == InitScore /\ [][NextScore]_vars

\* ------------------------------------ the second loop of run(), reporting
\* The tracks the loop can be given.
ProgressTracks ==
    {ShapedTrack(u, sn, sh) : u \in Urls, sn \in Snapshots, sh \in PipelineShapes}

InitProgress ==
    /\ OnlyProgress
    /\ pg_pc = "loop"
    /\ \E us \in DistinctUrlSeqs :
          pg_tracks \in {ts \in [1..Len(us) -> ProgressTracks] :
                            \A k \in 1..Len(us) : ts[k].url = us[k]}
    /\ pg_i = 0
    /\ pg_results = <<>>
    /\ pg_excs = <<>>
    /\ pg_envs = <<>>
    /\ pg_reports = <<>>

\* One iteration of the loop: the try block, with print_progress as its
\* last statement, and the except clause, which prints the error only.
ProgressItem ==
    /\ pg_pc = "loop"
    /\ pg_i < Len(pg_tracks)
    /\ \E env \in Envs, printed \in BOOLEAN :
          LET st == TryBody("app", pg_tracks[pg_i + 1], env) IN
          /\ pg_tracks' = [pg_tracks EXCEPT ![pg_i + 1] = st.track]
          /\ pg_results' = IF Appended(st) THEN Append(pg_results, st.track)
                                           ELSE pg_results
          /\ pg_reports' = IF st.exc = "none"
                           THEN Append(pg_reports,
                                       PrintProgress(pg_i, Len(pg_tracks), printed))
                           ELSE pg_reports
          /\ pg_excs' = Append(pg_excs, st.exc)
          /\ pg_envs' = Append(pg_envs, env)
    /\ pg_i' = pg_i + 1
    /\ UNCHANGED <<pg_pc, exceptProgress>>

\* return results
ProgressReturn ==
    /\ pg_pc = "loop"
    /\ pg_i = Len(pg_tracks)
    /\ pg_pc' = "returned"
    /\ UNCHANGED <<pg_tracks, pg_i, pg_results, pg_excs, pg_envs, pg_reports,
                   exceptProgress>>

NextProgress ==
    \/ ProgressItem
    \/ ProgressReturn

SpecProgress == InitProgress /\ [][NextProgress]_vars

\* -------------------------------------------- one call of make_safe_title
InitTitle ==
    /\ OnlyTitle
    /\ st_pc = "input"
    /\ st_in \in [title : Texts, artist : Texts, album : Texts]
    /\ st_out = <<>>

\* safe_title = self.make_safe_title(title, artist, album)
CallMakeSafeTitle ==
    /\ st_pc = "input"
    /\ st_out' = MakeSafeTitle(st_in.title, st_in.artist, st_in.album)
    /\ st_pc' = "done"
    /\ UNCHANGED <<st_in, exceptTitle>>

NextTitle == CallMakeSafeTitle

SpecTitle == InitTitle /\ [][NextTitle]_vars

\* ------------------------------------- the metadata loop of fetch_entries
InitEntries ==
    /\ OnlyEntries
    /\ en_pc = "loop"
    /\ \E n \in 0..MaxEntries : en_metas \in [1..n -> Metas]
    /\ en_k = 0
    /\ en_age_weight = NULL
    /\ en_tracks = <<>>
    /\ en_exc = "none"

\* One turn of the loop for a video whose extract_info returned.  What it
\* raises is outside the try statement and leaves fetch_entries.
EntriesItem ==
    /\ en_pc = "loop"
    /\ en_k < Len(en_metas)
    /\ LET out == EntryOf(en_metas[en_k + 1], en_age_weight)
       IN  /\ en_age_weight' = out.age_weight
           /\ en_exc' = out.raised
           /\ en_tracks' = Append(en_tracks, out.track)
           /\ en_pc' = IF out.raised = "none" THEN "loop" ELSE "raised"
    /\ en_k' = en_k + 1
    /\ UNCHANGED <<en_metas, exceptEntries>>

\* return tracks
EntriesReturn ==
    /\ en_pc = "loop"
    /\ en_k = Len(en_metas)
    /\ en_pc' = "returned"
    /\ UNCHANGED <<en_metas, en_k, en_age_weight, en_tracks, en_exc,
                   exceptEntries>>

NextEntries ==
    \/ EntriesItem
    \/ EntriesReturn

SpecEntries == InitEntries /\ [][NextEntries]_vars

\* ------------------------- two processes, one store, one output directory
\* Two runs work at the same time on urls that may be the same.  Each
\* enumerates its url, which writes the store (get_links), and asks the
\* Downloader for the waveform once.  Nothing in download_wav or in the
\* store's writers takes a lock or looks for another process.
InitRace ==
    /\ InitFetchWith(Callers)
    /\ f_files = {}
    /\ f_titles = [u \in Urls |-> <<"a", " ", "B">>]

\* An earlier process left a record of the first url in the store: init_db,
\* then save_track_list of the track as far as its pipeline had come, the
\* waveform fetched and analysed, the MP3 not yet made.
RaceEarlierRecord ==
    /\ db.schema = "absent"
    /\ \A p \in Callers : f_pc[p] = "idle" /\ f_hist[p] = <<>>
    /\ \E sh \in PipelineShapes :
          /\ sh.wav_path # NULL /\ sh.mp3_path = NULL
          /\ db' = SaveTrackList(EnsureSchema(db), <<ShapedTrack("u1", 1, sh)>>)
    /\ UNCHANGED <<pc, runs, locals, doneBefore, selvars, othervars>>

\* The first loop of run() in process p: get_links(playlist_url) finds the
\* url, with the counts of the day, and save_tracks_db writes it.
RaceEnumerate(p) ==
    /\ f_pc[p] = "idle" /\ f_hist[p] = <<>>
    /\ db' = SaveTracksDb(db, <<FetchedTrack(f_url[p], 2)>>)
    /\ UNCHANGED <<pc, runs, locals, doneBefore, selvars, othervars>>

\* Process p asks for the waveform of its url, once.
RaceCall(p) ==
    /\ f_hist[p] = <<>>
    /\ FetchCall(p)

NextRace ==
    \/ RaceEarlierRecord
    \/ \E p \in Callers : RaceEnumerate(p)
    \/ \E p \in Callers : RaceCall(p)
    \/ \E p \in Callers : FetchDownload(p)
    \/ \E p \in Callers : FetchPoll(p)

SpecRace == InitRace /\ [][NextRace]_vars

\* ------------------------------------- main(): the Spotify enrichment
InitEnrich ==
    /\ OnlyEnrich
    /\ sp_pc = "queries"
    /\ \E n \in 0..MaxEnrich :
          \E answers \in [1..n -> SpotifyAnswers] :
             sp_tracks = [k \in 1..n |-> EnrichTrack(k, answers[k])]
    /\ sp_infos = <<>>

\* queries = [(t.title, t.artist or "") for t in all_track_dtos];
\* track_infos = controller.process(queries)
EnrichProcess ==
    /\ sp_pc = "queries"
    /\ LET out == Process(sp_tracks) IN
          /\ sp_infos' = out.results
          /\ sp_pc' = IF out.raised = "none" THEN "processed" ELSE "raised"
    /\ UNCHANGED <<sp_tracks, exceptEnrich>>

\* The loop over zip(all_track_dtos, track_infos).
EnrichMapBack ==
    /\ sp_pc = "processed"
    /\ sp_tracks' = MapBack(sp_tracks, sp_infos)
    /\ sp_pc' = "mapped"
    /\ UNCHANGED <<sp_infos, exceptEnrich>>

NextEnrich ==
    \/ EnrichProcess
    \/ EnrichMapBack

SpecEnrich == InitEnrich /\ [][NextEnrich]_vars

\* ------------------------------- _generate_ranges, one turn at a time
\* ranges = []; start = self.min_bpm
InitGen ==
    /\ OnlyGen
    /\ gn_pc = "loop"
    /\ gn_cfg \in GenConfigs
    /\ gn_start = gn_cfg.min_bpm
    /\ gn_ranges = <<>>

\* One turn of the while loop.
GenTurn ==
    /\ gn_pc = "loop"
    /\ LoopCondition(gn_cfg, gn_start)
    /\ Len(gn_ranges) < MaxBuckets
    /\ gn_ranges' = Append(gn_ranges, RangeAt(gn_cfg, gn_start))
    /\ gn_start' = gn_start + gn_cfg.interval
    /\ UNCHANGED <<gn_pc, gn_cfg, exceptGen>>

\* return ranges
GenReturn ==
    /\ gn_pc = "loop"
    /\ ~LoopCondition(gn_cfg, gn_start)
    /\ gn_pc' = "returned"
    /\ UNCHANGED <<gn_cfg, gn_start, gn_ranges, exceptGen>>

NextGen ==
    \/ GenTurn
    \/ GenReturn

SpecGen == InitGen /\ [][NextGen]_vars

\* The interpreter runs the loop on.
SpecGenFair == SpecGen /\ WF_vars(GenTurn) /\ WF_vars(GenReturn)

\* ------------------------------------------- one call of load_playlists
InitPlaylists ==
    /\ OnlyPlaylists
    /\ pl_pc = "file"
    /\ \E n \in 0..MaxLines : pl_file \in [1..n -> RawLines]
    /\ pl_out = <<>>

\* playlists_by_genre = load_playlists()
CallLoadPlaylists ==
    /\ pl_pc = "file"
    /\ pl_out' = LoadPlaylists(pl_file)
    /\ pl_pc' = "loaded"
    /\ UNCHANGED <<pl_file, exceptPlaylists>>

NextPlaylists == CallLoadPlaylists

SpecPlaylists == InitPlaylists /\ [][NextPlaylists]_vars

\* The caller is a running process: a download that has begun returns or
\* raises, and the loop of _wait_for_file takes its next turn.
SpecFetchFair ==
    SpecFetch /\ WF_vars(FetchDownload(1)) /\ WF_vars(FetchPoll(1))

\* =============================================================== properties
\* Helpers over the state of one call of run().
UrlsOf(tracks) == {tracks[k].url : k \in 1..Len(tracks)}

SelectedUrls == UNION {UrlsOf(selected[p]) : p \in 1..Len(selected)}

FailedUrls == {log[k].url : k \in {m \in 1..Len(log) : ~log[m].ok}}

AttemptedUrls == {log[k].url : k \in 1..Len(log)}

InSecondLoop == pc \in {"pipeline", "returned"}

Stages == <<"Fetch", "Features", "Analyze", "Resolve", "Convert">>

StageNo(name) == CHOOSE n \in 1..Len(Stages) : Stages[n] = name

\* C1 -- failure isolation.  Of the N tracks handed to the second loop, the
\* K whose try block raised are exactly the ones missing from results: after
\* i tracks results holds i minus the failed ones, each of the i tracks had
\* its Fetch attempted whatever happened to the tracks before it, the loop
\* reaches the end of unique_tracks, and run() is never left by an exception
\* raised for one track.
C1_FailureIsolation ==
    /\ abortedIn # "pipeline"
    /\ InSecondLoop =>
          /\ Len(results) = i - Cardinality(FailedUrls)
          /\ UrlsOf(results) = UrlsOf(Take(unique, i)) \ FailedUrls
          /\ \A k \in 1..i :
                \E m \in 1..Len(log) :
                    log[m].url = unique[k].url /\ log[m].stage = "Fetch"
    /\ pc = "returned" => i = Len(unique)

\* A finished run over two tracks where the first one failed and the second
\* one was attempted after it.
C1_Witness ==
    /\ pc = "returned"
    /\ Len(unique) = 2
    /\ ~log[1].ok /\ log[1].url = unique[1].url
    /\ \E m \in 2..Len(log) : log[m].url = unique[2].url
    /\ Len(results) = 2 - Cardinality(FailedUrls)

\* C2 -- idempotent resume.  A url that get_processed_urls reported at the
\* end of an earlier run is never handed to the second loop of a later run
\* and has no stage call in it.
C2_AtMostOnce ==
    /\ AttemptedUrls \cap doneBefore = {}
    /\ InSecondLoop => UrlsOf(unique) \cap doneBefore = {}

\* A later run selected a url processed before, dropped it, and still ran the
\* pipeline for another url.
C2_Witness ==
    /\ pc = "returned"
    /\ SelectedUrls \cap doneBefore # {}
    /\ log # <<>>

\* C3 -- drop predicate.  A selected track is missing from unique_tracks
\* only if its url was in the store when the run loaded it AND the stored
\* row had both tempo fields set; a stored url whose row is not fully
\* processed is handed to the second loop again.
C3_DropOnlyFullyProcessed ==
    InSecondLoop =>
        \A u \in SelectedUrls \ UrlsOf(unique) :
            /\ u \in existing
            /\ u \in processedAtStart

C6_AnchorFirst ==
    (sel_pc = "done" /\ ~sel_mode) =>
        /\ sel_in # <<>>
        /\ sel_out # <<>>
        /\ sel_out[1] = sel_in[1]

\* A curated selection over a full playlist whose first track has the lowest
\* statistics of all and would enter no top five on its own.
C6_Witness ==
    /\ sel_pc = "done" /\ ~sel_mode
    /\ Len(sel_in) = MaxSelLen
    /\ \A k \in {"alt", "log", "viral"} :
          /\ FieldOf(sel_in[1], k) = Some(0)
          /\ Cardinality({j \in 2..Len(sel_in) : FieldOf(sel_in[j], k)[1] > 0})
                >= CuratedLimit
    /\ sel_out[1] = sel_in[1]

\* The rank of the j-th track among the tracks after the anchor under one
\* statistic, descending, ties in playlist order: the number of tracks
\* that a descending stable sort puts before it.
RankIn(j, k) ==
    Cardinality({m \in 2..Len(sel_in) :
        \/ FieldOf(sel_in[m], k)[1] > FieldOf(sel_in[j], k)[1]
        \/ FieldOf(sel_in[m], k) = FieldOf(sel_in[j], k) /\ m < j})

InTopN(j, k) == RankIn(j, k) < CuratedLimit

\* Where the j-th track first occurs in top_alt + top_log + top_viral.
FirstOccurrence(j) ==
    IF InTopN(j, "alt") THEN RankIn(j, "alt")
    ELSE IF InTopN(j, "log") THEN CuratedLimit + RankIn(j, "log")
    ELSE 2 * CuratedLimit + RankIn(j, "viral")

\* The position in the playlist of the a-th selected track.
PlaylistPos(a) == CHOOSE j \in 1..Len(sel_in) : sel_in[j] = sel_out[a]

\* C7 -- the curated selection.  It is the anchor followed by exactly the
\* tracks that are among the top N by score_alt, the top N by score_log or
\* the top N by view_count of the tracks after the anchor (N = 5), each
\* once, in the order of their first occurrence in the three rankings; it
\* holds no track from outside the playlist and no url twice.
C7_CuratedUnion ==
    (sel_pc = "done" /\ ~sel_mode) =>
        /\ sel_out[1] = sel_in[1]
        /\ \A a \in 1..Len(sel_out) : \E j \in 1..Len(sel_in) : sel_out[a] = sel_in[j]
        /\ \A a, b \in 1..Len(sel_out) : a # b => sel_out[a].url # sel_out[b].url
        /\ \A j \in 2..Len(sel_in) :
              (\E a \in 2..Len(sel_out) : sel_out[a] = sel_in[j]) <=>
                  \E k \in {"alt", "log", "viral"} : InTopN(j, k)
        /\ \A a, b \in 2..Len(sel_out) :
              a < b => FirstOccurrence(PlaylistPos(a)) < FirstOccurrence(PlaylistPos(b))

\* A curated selection that left a track out, took one track for its view
\* count alone, and had a tie to break.
C7_Witness ==
    /\ sel_pc = "done" /\ ~sel_mode
    /\ Len(sel_out) < Len(sel_in)
    /\ \E j \in 2..Len(sel_in) :
          /\ ~InTopN(j, "alt") /\ ~InTopN(j, "log") /\ InTopN(j, "viral")
          /\ \E a \in 2..Len(sel_out) : sel_out[a] = sel_in[j]
    /\ \E j, m \in 2..Len(sel_in) :
          j # m /\ FieldOf(sel_in[j], "alt") = FieldOf(sel_in[m], "alt")

\* The last track of a url among the selections of the run's playlists.
LastSelected(u) ==
    LET p == CHOOSE q \in 1..Len(selected) :
                 /\ u \in UrlsOf(selected[q])
                 /\ \A r \in (q + 1)..Len(selected) : u \notin UrlsOf(selected[r])
        k == CHOOSE n \in 1..Len(selected[p]) :
                 /\ selected[p][n].url = u
                 /\ \A x \in (n + 1)..Len(selected[p]) : selected[p][x].url # u
    IN  selected[p][k]

\* C8 -- url uniqueness within a run.  The list handed to the second loop
\* holds each url at most once, and each of its tracks is the last selected
\* occurrence of its url in this run.
C8_UniqueLastSeen ==
    (pc = "pipeline" /\ i = 0) =>
        /\ \A a, b \in 1..Len(unique) : a # b => unique[a].url # unique[b].url
        /\ \A a \in 1..Len(unique) :
              /\ unique[a].url \in SelectedUrls
              /\ unique[a] = LastSelected(unique[a].url)

\* The same url was selected from two playlists with different metadata and
\* is handed to the second loop.
C8_Witness ==
    /\ pc = "pipeline" /\ i = 0
    /\ \E p, q \in 1..Len(selected) :
          /\ p < q
          /\ \E a \in 1..Len(selected[p]), b \in 1..Len(selected[q]) :
                /\ selected[p][a].url = selected[q][b].url
                /\ selected[p][a] # selected[q][b]
                /\ selected[p][a].url \in UrlsOf(unique)

\* C9 -- exhaustive mode.  The selection of a playlist is the list of its
\* tracks as enumerated: same tracks, same order, none removed; the
\* selection never raises.
C9_ExhaustiveUnchanged ==
    sel_mode =>
        /\ sel_pc # "raised"
        /\ sel_pc = "done" => sel_out = sel_in

\* An exhaustive selection over a playlist longer than the curated mode
\* could return.
C9_Witness ==
    /\ sel_pc = "done" /\ sel_mode
    /\ Len(sel_in) = MaxSelLen
    /\ sel_out = sel_in

StoredFields ==
    {"view_count", "engagement_score_alt", "engagement_score_log", "title",
     "wav_path", "bpm_librosa", "target_bpm", "mp3_path", "bpm_essentia"}

\* C10 -- no field loss on upsert.  Whatever writes to the store, a url that
\* has a row keeps it, and a field of the row that holds a value is not
\* replaced by null.
C10_NoFieldLoss ==
    [][\A u \in DOMAIN db.rows :
          /\ u \in DOMAIN db'.rows
          /\ \A f \in StoredFields :
                db.rows[u][f] # NULL => db'.rows[u][f] # NULL]_vars

\* C11 -- records are never deleted.  A url that has a record in the store
\* has one after every operation of the core (enumeration, save_tracks,
\* save_track_list, init_db).
C11_NeverDeleted ==
    [][\A u \in DOMAIN db.rows : u \in DOMAIN db'.rows]_vars

\* The writes the core can issue to the store, as values.
StoreWrites ==
    {[op |-> "init_db", v |-> "app", tracks |-> <<>>]}
    \cup {[op |-> "save_tracks_db", v |-> "app", tracks |-> f] : f \in Enumerations}
    \cup {[op |-> "save_tracks", v |-> v, tracks |-> f] :
             v \in Variants, f \in Enumerations}
    \cup {[op |-> "save_track_list", v |-> "app", tracks |-> <<ShapedTrack(u, s, sh)>>] :
             u \in Urls, s \in Snapshots, sh \in PipelineShapes}

\* The store after write w.
ApplyWrite(w, d) ==
    CASE w.op = "init_db" -> EnsureSchema(d)
      [] w.op = "save_tracks_db" -> SaveTracksDb(d, w.tracks)
      [] w.op = "save_tracks" ->
            IF SaveTracksRaises(w.v, w.tracks) THEN d ELSE SaveTracks(w.v, d, w.tracks)
      [] w.op = "save_track_list" -> SaveTrackList(d, w.tracks)

IdempotentWrite(w) == ApplyWrite(w, ApplyWrite(w, db)) = ApplyWrite(w, db)

CommutingWrites(w1, w2) ==
    ApplyWrite(w2, ApplyWrite(w1, db)) = ApplyWrite(w1, ApplyWrite(w2, db))

OtherUrlsUntouched(w) ==
    \A u \in DOMAIN db.rows :
        u \notin UrlsOf(w.tracks) =>
            /\ u \in DOMAIN ApplyWrite(w, db).rows
            /\ ApplyWrite(w, db).rows[u] = db.rows[u]

\* C13 -- upserts are idempotent and order-independent.  From every store the
\* core can reach: a write applied twice leaves the store as applied once,
\* two writes give the same store in either order, and a write leaves the
\* records of the urls it does not name as they were.
C13_IdempotentOrderFree ==
    \A w1 \in StoreWrites :
        /\ IdempotentWrite(w1)
        /\ OtherUrlsUntouched(w1)
        /\ \A w2 \in StoreWrites : CommutingWrites(w1, w2)

Constructed == bz_pc \in {"ready", "extracted", "done"}

Resolved(t) == [raised |-> FALSE, target |-> t]

\* C14 -- half-open, lower-inclusive buckets.  A tempo at the lower edge of a
\* generated bucket resolves to that bucket's target; a tempo at its upper
\* edge resolves to the target of the next bucket, or to ValueError after the
\* last one; and a result is the target of the first bucket with
\* low <= tempo < high, ValueError being the result when there is none.
C14_HalfOpenBuckets ==
    bz_pc = "done" =>
        /\ \A k \in 1..Len(bz_ranges) :
              /\ bz_norm = bz_ranges[k].low => bz_out = Resolved(bz_ranges[k].target)
              /\ bz_norm = bz_ranges[k].high =>
                    IF k < Len(bz_ranges)
                    THEN bz_out = Resolved(bz_ranges[k + 1].target)
                    ELSE bz_out.raised
        /\ bz_out.raised <=>
              ~\E k \in 1..Len(bz_ranges) :
                   bz_ranges[k].low <= bz_norm /\ bz_norm < bz_ranges[k].high
        /\ ~bz_out.raised =>
              \E k \in 1..Len(bz_ranges) :
                  /\ bz_ranges[k].low <= bz_norm /\ bz_norm < bz_ranges[k].high
                  /\ bz_out.target = bz_ranges[k].target
                  /\ \A j \in 1..(k - 1) : bz_norm < bz_ranges[j].low
                                           \/ bz_norm >= bz_ranges[j].high

\* A tempo on the edge between two buckets resolved to the upper one, whose
\* target differs from the lower one's.
C14_Witness ==
    /\ bz_pc = "done"
    /\ \E k \in 1..(Len(bz_ranges) - 1) :
          /\ bz_norm = bz_ranges[k].high
          /\ bz_norm = bz_ranges[k + 1].low
          /\ bz_out = Resolved(bz_ranges[k + 1].target)
          /\ bz_ranges[k].target # bz_ranges[k + 1].target

\* C15 (as stated) -- a tempo equal to range_end resolves to ValueError
\* unless range_end is the lower edge of a generated bucket.
C15_RangeEndRaises ==
    (bz_pc = "done" /\ bz_norm = bz_cfg.max_bpm) =>
        \/ bz_out.raised
        \/ \E k \in 1..Len(bz_ranges) : bz_ranges[k].low = bz_cfg.max_bpm

\* C15 (amended) -- a tempo equal to range_end resolves to ValueError exactly
\* when no bucket is generated or the last generated bucket ends at
\* range_end (the interval divides range_end minus range_start); otherwise
\* the last bucket reaches beyond range_end and the tempo resolves to the
\* target of that bucket.
C15_RangeEndInTrailingBucket ==
    (bz_pc = "done" /\ bz_norm = bz_cfg.max_bpm) =>
        /\ bz_out.raised <=>
              \/ bz_ranges = <<>>
              \/ bz_ranges[Len(bz_ranges)].high = bz_cfg.max_bpm
        /\ bz_ranges = <<>> <=> bz_cfg.min_bpm >= bz_cfg.max_bpm
        /\ bz_ranges # <<>> =>
              (bz_ranges[Len(bz_ranges)].high = bz_cfg.max_bpm <=>
                  (bz_cfg.max_bpm - bz_cfg.min_bpm) % bz_cfg.interval = 0)
        /\ ~bz_out.raised =>
              bz_out.target = bz_ranges[Len(bz_ranges)].target

\* With config.py as it stands, 210 resolved to 212.
C15_Witness ==
    /\ bz_pc = "done"
    /\ bz_cfg = DefaultConfig
    /\ bz_raw = bz_cfg.max_bpm
    /\ bz_norm = bz_cfg.max_bpm
    /\ bz_out = Resolved(212)

\* C16 -- at most one correction.  A raw tempo below min_bpm is multiplied by
\* the multiplier once, one above max_bpm (and not below min_bpm) is divided
\* by it once, any other is returned as it is; choose_target then decides on
\* that value alone: it raises ValueError when no bucket holds it, with no
\* further doubling or halving.
C16_OneCorrection ==
    /\ bz_pc \in {"extracted", "done"} =>
          /\ bz_raw < bz_cfg.min_bpm => bz_norm = bz_raw * bz_cfg.extreme_mult
          /\ (bz_raw >= bz_cfg.min_bpm /\ bz_raw > bz_cfg.max_bpm) =>
                bz_norm * bz_cfg.extreme_mult = bz_raw
          /\ (bz_raw >= bz_cfg.min_bpm /\ bz_raw <= bz_cfg.max_bpm) =>
                bz_norm = bz_raw
    /\ bz_pc = "done" =>
          ((\A k \in 1..Len(bz_ranges) :
                bz_norm < bz_ranges[k].low \/ bz_norm >= bz_ranges[k].high)
             => bz_out.raised)

\* A raw tempo so low that its double is still below the first bucket (a
\* second doubling would have reached a bucket): ValueError.
C16_Witness ==
    /\ bz_pc = "done"
    /\ bz_ranges # <<>>
    /\ bz_raw < bz_cfg.min_bpm
    /\ bz_norm = bz_raw * bz_cfg.extreme_mult
    /\ bz_norm < bz_cfg.min_bpm
    /\ \E k \in 1..Len(bz_ranges) :
          /\ bz_ranges[k].low <= bz_norm * bz_cfg.extreme_mult
          /\ bz_norm * bz_cfg.extreme_mult < bz_ranges[k].high
    /\ bz_out.raised

\* C17 -- normalization leaves a tempo within [min_bpm, max_bpm] as it is,
\* both bounds included; normalizing it again changes neither the tempo
\* nor what choose_target does with it.
C17_IdempotentInRange ==
    (bz_pc \in {"extracted", "done"}
        /\ bz_cfg.min_bpm <= bz_raw /\ bz_raw <= bz_cfg.max_bpm) =>
        /\ bz_norm = bz_raw
        /\ NormalizeBpm(bz_cfg, bz_norm) = bz_raw
        /\ ChooseTarget(bz_ranges, NormalizeBpm(bz_cfg, bz_norm))
              = ChooseTarget(bz_ranges, bz_norm)
        /\ bz_pc = "done" =>
              bz_out = ChooseTarget(bz_ranges, NormalizeBpm(bz_cfg, bz_norm))

\* A tempo on a bound of the range went through unchanged and was resolved.
C17_Witness ==
    /\ bz_pc = "done"
    /\ bz_cfg.min_bpm < bz_cfg.max_bpm
    /\ bz_raw = bz_cfg.min_bpm
    /\ bz_norm = bz_raw
    /\ ~bz_out.raised

\* The buckets are the intervals [start, start + interval) for start from
\* min_bpm in steps of interval while start < max_bpm.
BucketEdges ==
    /\ \A k \in 1..Len(bz_ranges) :
          /\ bz_ranges[k].low = bz_cfg.min_bpm + (k - 1) * bz_cfg.interval
          /\ bz_ranges[k].high = bz_ranges[k].low + bz_cfg.interval
          /\ bz_ranges[k].low < bz_cfg.max_bpm
    /\ bz_cfg.min_bpm + Len(bz_ranges) * bz_cfg.interval >= bz_cfg.max_bpm

C19_DegenerateRejectedAtStartup ==
    Constructed => bz_ranges # <<>>

\* C20 -- estimator preference.  The bpm of a track is Essentia's estimate
\* whenever that is set and Librosa's only when Essentia's is not; it is one
\* of the two values, never anything between, and it is None only when both
\* are None.
C20_PreferredEstimator ==
    tr_pc = "read" =>
        /\ tr_track.bpm_essentia # NULL => tr_bpm = tr_track.bpm_essentia
        /\ tr_track.bpm_essentia = NULL => tr_bpm = tr_track.bpm_librosa
        /\ tr_bpm \in {tr_track.bpm_essentia, tr_track.bpm_librosa}
        /\ tr_bpm = NULL <=>
              (tr_track.bpm_essentia = NULL /\ tr_track.bpm_librosa = NULL)

\* Both estimates are set and differ; the bpm is Essentia's.
C20_Witness ==
    /\ tr_pc = "read"
    /\ tr_track.bpm_essentia # NULL
    /\ tr_track.bpm_librosa # NULL
    /\ tr_track.bpm_essentia # tr_track.bpm_librosa
    /\ tr_bpm = tr_track.bpm_essentia

\* C21: extract() runs the estimators in the order Essentia, Librosa; an
\* estimator runs only if the one before it raised; a tempo that is returned
\* is the normalized tempo of the last estimator that ran, and of no other;
\* and extract() raises only if every estimator raised.
C21_AnalyzeFallback ==
    ex_pc = "done" =>
        /\ \E n \in 1..Len(OracleOrder) : ex_res.calls = Take(OracleOrder, n)
        /\ \A k \in 2..Len(ex_res.calls) : ex_wav[ex_res.calls[k - 1]] = NULL
        /\ ~ex_res.raised =>
              LET last == ex_res.calls[Len(ex_res.calls)]
              IN  /\ ex_wav[last] # NULL
                  /\ ex_res.bpm = NormalizeBpm(ex_cfg, ex_wav[last][1])
        /\ ex_res.raised =>
              \A k \in 1..Len(OracleOrder) : ex_wav[OracleOrder[k]] = NULL

\* Essentia raised, Librosa gave a tempo out of range, extract() returned it
\* normalized.
C21_Witness ==
    /\ ex_pc = "done"
    /\ ex_res.calls = OracleOrder
    /\ ~ex_res.raised
    /\ ex_res.bpm # ex_wav.librosa[1]

\* Helpers over the calls of download_wav.
Finished(p, k) == k < Len(f_hist[p]) \/ f_pc[p] \in {"returned", "raised"}

WavOf(p) == WavPath(f_titles[f_url[p]])

\* C22: a call of download_wav that finds the waveform of its url in place
\* does not run the download, removes and writes no file and returns the
\* path of that waveform; and of two calls in a row for the same url at most
\* one runs the download.
C22_FetchIdempotent ==
    \A p \in Callers :
        /\ \A k \in 1..Len(f_hist[p]) :
              (Finished(p, k) /\ f_hist[p][k].had) =>
                  /\ f_hist[p][k].downloads = 0
                  /\ f_hist[p][k].kept
                  /\ f_hist[p][k].res = Returned(WavOf(p))
        /\ \A k \in 1..(Len(f_hist[p]) - 1) :
              f_hist[p][k].downloads + f_hist[p][k + 1].downloads <= 1

\* The polls of the wait that fall within the timeout.
TimeoutPolls == TimeoutSeconds * PollsPerSecond

\* The calls of download_wav whose download returned and whose wait is over.
Waited(p) ==
    {k \in 1..Len(f_hist[p]) :
        /\ Finished(p, k)
        /\ f_hist[p][k].downloads > 0
        /\ f_hist[p][k].res # Raised("DownloadError")}

C24_ConvertIdempotent ==
    (cv_calls > 0 /\ cv_last.had) =>
        /\ cv_last.transcodes = 0
        /\ cv_last.kept
        /\ cv_last.raised = "none"
        /\ cv_track.mp3_path = Some(OutMp3(cv_track))

\* A second call in a row found the output the first call had written.
C24_Witness ==
    /\ cv_calls = 2
    /\ cv_last.had
    /\ cv_last.pathBefore # NULL
    /\ cv_track.wav_path # NULL
    /\ cv_track.wav_path[1] \notin cv_files

\* C25: a call of convert in which ffmpeg fails raises, leaves the track's
\* mp3_path as it was, and leaves the waveform in place if it was there; a
\* call after which the waveform is gone ran ffmpeg with success.
C25_FailureKeepsWaveform ==
    cv_calls > 0 =>
        /\ cv_last.exit = "failed" =>
              /\ cv_last.raised = "CalledProcessError"
              /\ cv_track.mp3_path = cv_last.pathBefore
              /\ cv_last.wavBefore => cv_track.wav_path[1] \in cv_files
        /\ (cv_last.wavBefore /\ cv_track.wav_path[1] \notin cv_files) =>
              /\ cv_last.exit = "ok"
              /\ cv_last.raised = "none"
              /\ OutMp3(cv_track) \in cv_files

\* ffmpeg ran and failed, the waveform is still there and the track has no
\* mp3_path.
C25_Witness ==
    /\ cv_calls > 0
    /\ cv_last.exit = "failed"
    /\ cv_last.wavBefore
    /\ cv_track.wav_path[1] \in cv_files
    /\ cv_track.mp3_path = NULL

\* C26: for every call with vc = 0, whatever lc and cc, the scorer gives 0
\* for engagement_rate, score_alt and score_log; and for every call with
\* counts that are not negative it gives a result and raises nothing, with
\* comment_to_like 0 when lc = 0.
C26_ScorerZeroGuards ==
    sc_pc = "done" =>
        /\ sc_out.raised = "none"
        /\ sc_in.vc = 0 =>
              /\ sc_out.er = 0
              /\ sc_out.score_alt = 0
              /\ sc_out.score_log = 0
        /\ sc_in.lc = 0 => sc_out.comment_to_like = 0

\* A video with views and comments but no likes got scores that are not 0.
C26_Witness ==
    /\ sc_pc = "done"
    /\ sc_in.vc > 0
    /\ sc_in.lc = 0
    /\ sc_in.cc > 0
    /\ sc_out.raised = "none"
    /\ sc_out.score_alt # 0
    /\ sc_out.er # 0

\* C27: after each item of the batch, whether its try block raised or not,
\* the loop has made a call of print_progress; the completed counts of these
\* calls strictly increase and none exceeds the total; and whatever the calls
\* did, results holds exactly the tracks whose try block raised nothing.
C27_ProgressAfterEachItem ==
    pg_pc # "off" =>
        /\ Len(pg_reports) = pg_i
        /\ \A k \in 1..Len(pg_reports) :
              /\ pg_reports[k].completed <= Len(pg_tracks)
              /\ k > 1 => pg_reports[k - 1].completed < pg_reports[k].completed
        /\ UrlsOf(pg_results) =
              {pg_tracks[k].url : k \in {m \in 1..pg_i : pg_excs[m] = "none"}}

\* C28: the safe title made of any title, artist and album has at most 128
\* characters, each of them a letter, a digit, a space or a hyphen.
C28_SafeTitleCharset ==
    st_pc = "done" =>
        /\ Len(st_out) <= 128
        /\ \A k \in 1..Len(st_out) : st_out[k] \in Alnum \cup {" ", "-"}

\* C29: a video without a timestamp has no age_weight, and the turn of the
\* loop that divides its counts raises; no TrackDTO is built for it, so its
\* counts and scores never come from the age_weight of another video.
C29_MissingTimestampRaises ==
    \A k \in 1..en_k :
        en_metas[k].age = NULL =>
            /\ en_tracks[k] = NULL
            /\ en_pc = "raised"
            /\ en_exc # "none"

\* Process p has run ydl.download for url u.
Downloaded(p, u) ==
    /\ f_url[p] = u
    /\ f_hist[p] # <<>>
    /\ ThisCall(p).downloads > 0

\* The record of u in the store holds a result of the pipeline.
PartlyCompleted(rows, u) ==
    /\ u \in DOMAIN rows
    /\ \E f \in {"wav_path", "bpm_librosa", "bpm_essentia", "target_bpm",
                 "mp3_path"} : rows[u][f] # NULL

\* C30 -- at most one heavy processing under concurrency.  When two runs
\* work at the same time on the same urls, store and output directory, no
\* url is downloaded by both, and no write to the store takes a pipeline
\* result away from a record that was partly completed.
C30_AtMostOneFetch ==
    /\ [](\A u \in Urls : ~(Downloaded(1, u) /\ Downloaded(2, u)))
    /\ [][\A u \in Urls :
             PartlyCompleted(db.rows, u) =>
                /\ u \in DOMAIN db'.rows
                /\ \A f \in StoredFields :
                      db.rows[u][f] # NULL => db'.rows[u][f] = db.rows[u][f]]_vars

\* The fetcher, the tempo oracle and the transcoder succeed for the item and
\* its normalized tempo lies in a bucket.
AllSucceed(env) ==
    env.fetch /\ env.features /\ env.analyze /\ env.bucket /\ env.convert

\* The track as the spec's state Converted has it.
IsConverted(t) ==
    /\ t.wav_path # NULL
    /\ BpmProperty(t) # NULL
    /\ t.target_bpm # NULL
    /\ t.mp3_path # NULL

\* C31 -- success is reachable.  Every item of the batch the loop is through
\* with, for which all collaborators succeeded and the tempo lay in a bucket,
\* is in results with waveform path, tempo, target and output path set.
C31_SuccessReachable ==
    pg_pc # "off" =>
        \A k \in 1..pg_i :
            AllSucceed(pg_envs[k]) =>
                \E r \in 1..Len(pg_results) :
                    /\ pg_results[r].url = pg_tracks[k].url
                    /\ IsConverted(pg_results[r])

\* C32 -- selection never aborts the run.  No call of run() is left by an
\* exception of its playlist loop, and a playlist that enumerated to nothing
\* contributed nothing to the selection.
C32_SelectionNeverAborts ==
    /\ abortedIn # "select"
    /\ \A k \in 1..Len(selected) :
          enumerated[k] = <<>> => selected[k] = <<>>

\* C33 -- no cross-identity reuse.  Two processes that asked for the
\* waveforms of different urls and both got a path back did not get the
\* same file.
C33_NoCrossIdentityReuse ==
    \A p, q \in Callers :
        (/\ f_pc[p] = "returned" /\ f_pc[q] = "returned"
         /\ f_url[p] # f_url[q])
        => ThisCall(p).res # ThisCall(q).res

\* C34 -- enrichment alignment.  After the Spotify data are mapped back,
\* the TrackInfo attached to a track is the one its own (title, artist)
\* query returned.
C34_EnrichmentAligned ==
    sp_pc = "mapped" =>
        \A k \in 1..Len(sp_tracks) :
            sp_tracks[k].spotify # NULL =>
                sp_tracks[k].spotify = Some(TrackInfoOf(sp_tracks[k]))

\* The buckets follow one another without gap or overlap, from min_bpm to
\* max_bpm or beyond.
ContiguousDisjoint ==
    /\ bz_ranges # <<>>
    /\ bz_ranges[1].low = bz_cfg.min_bpm
    /\ bz_ranges[Len(bz_ranges)].high >= bz_cfg.max_bpm
    /\ \A k \in 1..Len(bz_ranges) : bz_ranges[k].low < bz_ranges[k].high
    /\ \A k \in 1..(Len(bz_ranges) - 1) : bz_ranges[k].high = bz_ranges[k + 1].low

\* The raw tempo resolved to the target of the one bucket that holds it.
ResolvedToExactlyOne ==
    /\ ~bz_out.raised
    /\ \E k \in 1..Len(bz_ranges) :
          /\ InBucket(bz_ranges[k], bz_raw)
          /\ bz_out.target = bz_ranges[k].target
          /\ \A j \in 1..Len(bz_ranges) : InBucket(bz_ranges[j], bz_raw) => j = k

\* C35 (as stated) -- buckets partition the range.  For range_start <
\* range_end (interval_size > 0) the buckets are contiguous and disjoint,
\* their union contains [range_start, range_end], and every raw tempo in
\* [range_start, range_end] resolves to exactly one target, never to
\* ValueError.
C35_BucketsCoverClosedRange ==
    (Constructed /\ bz_cfg.min_bpm < bz_cfg.max_bpm) =>
        /\ ContiguousDisjoint
        /\ bz_ranges[Len(bz_ranges)].high > bz_cfg.max_bpm
        /\ (/\ bz_pc = "done"
            /\ bz_cfg.min_bpm <= bz_raw /\ bz_raw <= bz_cfg.max_bpm)
           => ResolvedToExactlyOne

\* C35 (amended) -- for range_start < range_end (interval_size > 0) the
\* buckets are contiguous and disjoint, their union contains
\* [range_start, range_end), and range_end too exactly when interval_size
\* does not divide range_end - range_start; every raw tempo in
\* [range_start, range_end) resolves to exactly one target, never to
\* ValueError, and a raw tempo equal to range_end does so exactly when the
\* union contains it.
C35_BucketsCoverHalfOpenRange ==
    (Constructed /\ bz_cfg.min_bpm < bz_cfg.max_bpm) =>
        /\ ContiguousDisjoint
        /\ bz_ranges[Len(bz_ranges)].high > bz_cfg.max_bpm <=>
              (bz_cfg.max_bpm - bz_cfg.min_bpm) % bz_cfg.interval # 0
        /\ (/\ bz_pc = "done"
            /\ bz_cfg.min_bpm <= bz_raw /\ bz_raw < bz_cfg.max_bpm)
           => ResolvedToExactlyOne
        /\ (bz_pc = "done" /\ bz_raw = bz_cfg.max_bpm) =>
              IF bz_ranges[Len(bz_ranges)].high > bz_cfg.max_bpm
              THEN ResolvedToExactlyOne
              ELSE bz_out.raised

\* In a range the interval divides (100 to 200 by 20), 199.5 resolved to the
\* target of the last bucket, the fifth.
C35_Witness ==
    /\ bz_pc = "done"
    /\ bz_cfg.min_bpm = Bpm(100) /\ bz_cfg.max_bpm = Bpm(200)
    /\ Len(bz_ranges) = 5
    /\ bz_ranges[5].high = bz_cfg.max_bpm
    /\ bz_raw = bz_cfg.max_bpm - 2
    /\ bz_out = Resolved(bz_ranges[5].target)

\* C36 -- bucket generation terminates for every configuration.  Every turn
\* of the loop brings start closer to max_bpm, and _generate_ranges returns.
C36_GenerationTerminates ==
    /\ [][(gn_pc = "loop" /\ gn_start' # gn_start) =>
             gn_cfg.max_bpm - gn_start' < gn_cfg.max_bpm - gn_start]_vars
    /\ [][(gn_pc = "loop" /\ gn_ranges' # gn_ranges) => gn_start' # gn_start]_vars
    /\ <>(gn_pc \in {"off", "returned"})

\* C37 -- writers agree on the store schema.  Once a writer has created the
\* table, in whatever order the writers ran, the next upsert by
\* save_track_list succeeds, and so do the reads of get_processed_urls and
\* of load_tracks of either script (the twelve-column upserts succeed on
\* every table).
C37_WritersAgreeOnSchema ==
    db.schema # "absent" =>
        /\ ~SaveTrackListFails(db)
        /\ ~GetProcessedUrlsFails(db)
        /\ \A v \in Variants : ~LoadTracksRaises(v, db)

\* The lines of the file that are not blank, stripped, in file order.
NonBlankLines(raws) ==
    SelectSeq([k \in 1..Len(raws) |-> Strip(raws[k])], LAMBDA l : l # <<>>)

\* The url lines that follow a header of the genre up to the next header,
\* over all its occurrences, in file order.
RECURSIVE UrlsUnder(_, _, _)
UrlsUnder(lines, genre, current) ==
    IF lines = <<>> THEN <<>>
    ELSE IF IsGenreLine(Head(lines))
    THEN UrlsUnder(Tail(lines), genre, Head(lines))
    ELSE IF current = genre
    THEN <<Head(lines)>> \o UrlsUnder(Tail(lines), genre, current)
    ELSE UrlsUnder(Tail(lines), genre, current)

\* C38 -- playlist file parsing.  A url line before any genre header makes
\* the result empty.  Otherwise the result has the genres of the header
\* lines, each once, in the order of their first occurrence, and each genre
\* is mapped to the urls that follow its header up to the next header, in
\* file order, blank lines skipped; a header that occurs again keeps the urls
\* collected under its earlier occurrences.
C38_PlaylistFileParsing ==
    pl_pc = "loaded" =>
        LET lines == NonBlankLines(pl_file)
            headers == {q \in 1..Len(lines) : IsGenreLine(lines[q])}
        IN  IF lines # <<>> /\ ~IsGenreLine(lines[1])
            THEN pl_out = <<>>
            ELSE /\ {pl_out[k].genre : k \in 1..Len(pl_out)} =
                       {lines[q] : q \in headers}
                 /\ \A j, k \in 1..Len(pl_out) :
                       j < k =>
                          \E q \in headers :
                             /\ lines[q] = pl_out[j].genre
                             /\ \A r \in headers :
                                   lines[r] = pl_out[k].genre => q < r
                 /\ \A k \in 1..Len(pl_out) :
                       pl_out[k].urls = UrlsUnder(lines, pl_out[k].genre, NULL)

====
